---- MODULE Spec2Model ----
(***************************************************************************)
(* State-machine model of brain_ai::indexing::IndexManager                 *)
(* (src/brain-ai/src/indexing/index_manager.cpp) and of the document       *)
(* pipeline, OCRClient and DocumentProcessor (src/brain-ai/src/document).  *)
(*                                                                         *)
(* The manager owns a document map, an HNSW index, statistics, a           *)
(* configuration and a last-save timestamp, all guarded by one             *)
(* non-recursive std::mutex.  Every public method takes the mutex for its  *)
(* whole body, so a method is one atomic action here, with two exceptions  *)
(* that the code makes visible: update_document, which calls the public    *)
(* delete_document and add_document one after the other and releases the   *)
(* mutex in between, and the auto-save path, where a method that holds     *)
(* the mutex calls the public save(), which locks the same mutex again.    *)
(*                                                                         *)
(* vector_search::HNSWIndex is described by the design document only; the  *)
(* HNSW_* operators follow that description.                               *)
(*                                                                         *)
(* The specifications share the actions.  Spec lets two threads call the   *)
(* methods that work in memory (add, delete, update, clear, reads), with   *)
(* every interleaving the mutex allows.  SpecPersist lets one thread call  *)
(* the methods together with save, load, load_from and set_index_path and  *)
(* every outcome of the file system; since each method holds the mutex     *)
(* for its whole body, one thread reaches every state of the manager that  *)
(* several threads reach.  SpecConfig lets two threads read and write the  *)
(* configuration, with set_index_path, set_ef_search and load_from in the  *)
(* steps another thread can fall between.  SpecBatch and SpecSnapshot let  *)
(* one thread call add_batch on a manager with room for two documents, the *)
(* first with arrays of every shape and a running clock, the second with   *)
(* save, clear and load.                                                   *)
(* SpecLifecycle destroys the manager and constructs it again on the same  *)
(* disk; SpecMetadata calls add_document and add_batch with user metadata  *)
(* that names the manager's own keys.  SpecDocument has one caller of the   *)
(* document pipeline, with every answer of the file system, the OCR        *)
(* service, the validator and the embedding service.                       *)
(* SpecStats and SpecSearchBatch add the statistics after every mutation   *)
(* and search_batch beside a writer.  SpecRequest calls make_request       *)
(* alone, SpecClient reconfigures the OCR client, SpecProcessBatch and     *)
(* SpecWithEmbedding call process_batch and process_with_embedding, and    *)
(* SpecProcessor lets the calls of the processor run beside each other.    *)
(***************************************************************************)
EXTENDS Integers, Sequences, FiniteSets, TLC

(***************************************************************************)
(* The bound of the model and the configuration the manager is built      *)
(* with (IndexConfig).                                                     *)
(***************************************************************************)
\* Number of clock ticks the model lets pass.
MaxClock == 1
\* Longest array add_batch is called with.
MaxBatch == 1
\* config_.save_interval, in clock ticks.
SaveInterval == 1
\* config_.embedding_dim.
Dim == 2
\* config_.max_elements.
MaxElements == 1
\* config_.max_elements of the manager the batch calls are made on.
BatchMaxElements == 2
\* config_.ef_search.
EfSearch == 50
\* The values set_ef_search is called with.
EfSearches == {EfSearch, 2 * EfSearch}

Threads == {"t1", "t2"}
\* The threads that call update_document.
Updaters == {"t1"}
DocIds == {"a", "b"}
Contents == {"x", "yy"}
Paths == {"p1"}
NoThread == "none"

\* Unit vector along axis i, of the configured dimension.
UnitVec(i) == [j \in 1..Dim |-> IF j = i THEN 1 ELSE 0]
\* A vector whose length differs from the configured dimension.
ShortVec == [j \in 1..(Dim - 1) |-> 1]
Embeddings == {UnitVec(1), UnitVec(2), ShortVec}
\* One embedding the index accepts and one it rejects.
TwoEmbeddings == {UnitVec(1), ShortVec}
\* The queries and result counts search is asked for.
Queries == {UnitVec(1), UnitVec(2), ShortVec}
TopKs == {1, 2}
\* Thresholds, in percent (0: no filtering).
Thresholds == {0, 50, 100}

\* nlohmann::json objects are functions from keys to values; json{} (null)
\* behaves as the empty object in every use the manager makes of it.
EmptyJson == <<>>
UserMetas == {EmptyJson, [doc_id |-> "spoof"]}

\* A user metadata that names keys the manager sets, and one of its own.
SpoofMeta == [doc_id |-> "spoof", content_length |-> 0, source |-> "user"]

StrLen(c) == IF c = "x" THEN 1 ELSE 2

\* The content and user metadata add_document is called with where the
\* stored record is looked at.
ContentsAndMetas == {<<"x", EmptyJson>>, <<"yy", SpoofMeta>>}

\* The parallel arrays add_batch is called with, of up to MaxBatch entries.
Lengths == 0..MaxBatch
Array(n, x) == [i \in 1..n |-> x]
BatchDocIds == UNION {[1..n -> DocIds] : n \in Lengths}
\* n embeddings the index accepts, but for the one at position bad, if any.
BatchEmbeddings(n) ==
    {[i \in 1..n |-> IF i = bad THEN ShortVec ELSE UnitVec(2)] : bad \in {0, 1, n}}
BatchCall(doc_ids, embeddings, contents, metadatas) ==
    [doc_ids |-> doc_ids, embeddings |-> embeddings, contents |-> contents,
     metadatas |-> metadatas]
\* The calls whose arrays have equal sizes, metadatas being empty or of that
\* size too.
EqualSizeBatches ==
    UNION {{BatchCall(doc_ids, embeddings, Array(Len(doc_ids), "x"), metadatas) :
                embeddings \in BatchEmbeddings(Len(doc_ids)),
                metadatas \in {<<>>, Array(Len(doc_ids), EmptyJson)}} :
           doc_ids \in BatchDocIds}
\* Of these, the calls without metadatas whose embeddings the index accepts.
PlainBatches ==
    {b \in EqualSizeBatches :
        /\ b.metadatas = <<>>
        /\ \A i \in 1..Len(b.embeddings) : Len(b.embeddings[i]) = Dim}
\* The calls with embeddings the index accepts, contents that differ from
\* item to item, and no metadatas or metadatas that name the manager's keys.
MetaBatches ==
    UNION {{BatchCall(doc_ids, Array(Len(doc_ids), UnitVec(2)),
                      [i \in 1..Len(doc_ids) |-> IF i = 1 THEN "x" ELSE "yy"],
                      metadatas) :
                metadatas \in {<<>>, Array(Len(doc_ids), SpoofMeta)}} :
           doc_ids \in BatchDocIds}
\* The calls in which one array, embeddings, contents or a non-empty
\* metadatas, has another size (m) than the other arrays (n).
OddSizeBatches ==
    UNION {{BatchCall(Array(n, "a"), Array(m, UnitVec(1)), Array(n, "x"), <<>>),
            BatchCall(Array(n, "a"), Array(n, UnitVec(1)), Array(m, "x"), <<>>),
            BatchCall(Array(n, "a"), Array(n, UnitVec(1)), Array(n, "x"),
                      Array(IF m = 0 THEN n + 1 ELSE m, EmptyJson))} :
           <<n, m>> \in {nm \in Lengths \X Lengths : nm[1] # nm[2]}}

VARIABLES
    documents_,   \* std::unordered_map<std::string, json> documents_
    index_,       \* std::unique_ptr<HNSWIndex> index_
    stats_,       \* IndexStats stats_
    index_path,   \* config_.index_path
    auto_save,    \* config_.auto_save
    config_,      \* config_.max_elements and config_.ef_search
    last_save_,   \* steady_clock::time_point last_save_
    mutex_,       \* owner of std::mutex mutex_, or NoThread
    pc,           \* per thread: where the thread is inside a call
    disk,         \* the files at each path: index file and metadata sidecar
    now,          \* the clock
    last,         \* the call that returned (or got stuck) last, with its result
    ocr_requests,     \* HTTP requests OCRClient has sent to the OCR service
    processor_stats_, \* ProcessingStats DocumentProcessor::stats_
    cognitive_,       \* CognitiveHandler& DocumentProcessor::cognitive_
    processor_config_, \* Config DocumentProcessor::config_, its three switches
    processor_pc,     \* per thread: where the thread is inside a call of the processor
    ocr_client_       \* OCRClient: its config_ and the endpoint its pimpl_ is bound to

vars == <<documents_, index_, stats_, index_path, auto_save, config_,
          last_save_, mutex_, pc, disk, now, last,
          ocr_requests, processor_stats_, cognitive_,
          processor_config_, processor_pc, ocr_client_>>

\* The state of the document pipeline, which no method of the manager
\* touches, and the state of the manager, which the pipeline does not touch.
docvars == <<ocr_requests, processor_stats_, cognitive_,
            processor_config_, processor_pc, ocr_client_>>
\* The processor's configuration, the calls in progress on it, and its client.
pipevars == <<processor_config_, processor_pc, ocr_client_>>
mgrvars == <<documents_, index_, stats_, index_path, auto_save, config_,
             last_save_, mutex_, pc, disk>>

(***************************************************************************)
(* HNSWIndex, from the design document: a collection of vectors keyed by   *)
(* document id, in insertion order (the position is the internal id).      *)
(***************************************************************************)
\* The constructor: an empty graph of the given capacity, searching with
\* the default candidate-list size.
HNSW_new(max_elements) ==
    [entries |-> <<>>, max_elements |-> max_elements, ef_search |-> EfSearch]

HNSW_set_ef_search(ix, ef) == [ix EXCEPT !.ef_search = ef]

HNSW_size(ix) == Len(ix.entries)

HNSW_has(ix, d) == \E i \in 1..Len(ix.entries) : ix.entries[i].doc_id = d

\* Insert fails on dimension mismatch, on an id already present and on
\* capacity exhaustion, before any mutation.
HNSW_can_add(ix, d, e) ==
    /\ Len(e) = Dim
    /\ ~HNSW_has(ix, d)
    /\ HNSW_size(ix) < ix.max_elements

HNSW_add_document(ix, d, e) ==
    [ix EXCEPT !.entries = Append(@, [doc_id |-> d, embedding |-> e])]

Dot(a, b) == LET S[i \in 0..Dim] == IF i = 0 THEN 0 ELSE S[i - 1] + a[i] * b[i]
             IN S[Dim]

\* Similarity (1 + dot) / 2, in percent.
Similarity(a, b) == 50 * (1 + Dot(a, b))

\* Position i is ranked before position j: higher similarity first, then
\* the lower internal id.
RanksBefore(ix, q, i, j) ==
    LET si == Similarity(q, ix.entries[i].embedding)
        sj == Similarity(q, ix.entries[j].embedding)
    IN si > sj \/ (si = sj /\ i < j)

Rank(ix, q, i) ==
    1 + Cardinality({j \in 1..Len(ix.entries) : j # i /\ RanksBefore(ix, q, j, i)})

\* The k best entries in decreasing similarity; empty for a query of the
\* wrong dimension or an empty graph.
HNSW_search(ix, q, k) ==
    IF Len(q) # Dim THEN <<>>
    ELSE LET n == Len(ix.entries)
             m == IF k < n THEN k ELSE n
             at(r) == CHOOSE i \in 1..n : Rank(ix, q, i) = r
         IN [r \in 1..m |->
                [doc_id |-> ix.entries[at(r)].doc_id,
                 similarity |-> Similarity(q, ix.entries[at(r)].embedding)]]

\* What save() writes and what load() makes of the index it is called on.
HNSW_save(ix) == ix.entries
HNSW_load(ix, data) == [ix EXCEPT !.entries = data]

(***************************************************************************)
(* The manager's state as one record, so that the bodies of the methods    *)
(* are functions from state to state.                                      *)
(***************************************************************************)
Mgr == [documents |-> documents_, index |-> index_, stats |-> stats_,
        index_path |-> index_path, config |-> config_, last_save |-> last_save_]

\* make_unique<HNSWIndex>(embedding_dim, max_elements, M, ef_construction)
\* followed by set_ef_search(config_.ef_search), as the constructor, clear
\* and load_from do.
make_index(config) ==
    HNSW_set_ef_search(HNSW_new(config.max_elements), config.ef_search)

IndexStats(t) == [total_documents |-> 0, total_vectors |-> 0,
                  index_size_bytes |-> 0, last_update |-> 0, created_at |-> t]

\* update_stats without stats_.total_documents = documents_.size().
update_stats_no_count(m, t) ==
    [m EXCEPT !.stats = [total_documents |-> m.stats.total_documents,
                         total_vectors |-> HNSW_size(m.index),
                         index_size_bytes |-> HNSW_size(m.index) * Dim * 4,
                         last_update |-> t,
                         created_at |-> m.stats.created_at]]

\* update_stats: the two counts and the size are taken from the containers,
\* last_update from the clock.
update_stats(m, t) ==
    [m EXCEPT !.stats = [total_documents |-> Cardinality(DOMAIN m.documents),
                         total_vectors |-> HNSW_size(m.index),
                         index_size_bytes |-> HNSW_size(m.index) * Dim * 4,
                         last_update |-> t,
                         created_at |-> m.stats.created_at]]

SystemKeys == {"doc_id", "content", "content_length", "indexed_at"}

\* create_metadata in which the keys of the user metadata win.
create_metadata_user_wins(d, c, um, t) ==
    [k \in (DOMAIN um) \cup SystemKeys |->
        CASE k \in DOMAIN um -> um[k]
          [] k = "doc_id" -> d
          [] k = "content" -> c
          [] k = "content_length" -> StrLen(c)
          [] k = "indexed_at" -> t]

create_metadata(d, c, um, t) ==
    [k \in (DOMAIN um) \cup SystemKeys |->
        CASE k = "doc_id" -> d
          [] k = "content" -> c
          [] k = "content_length" -> StrLen(c)
          [] k = "indexed_at" -> t
          [] OTHER -> um[k]]

\* should_auto_save without the test of index_path.
should_auto_save_any_path(m, as, t) ==
    /\ as
    /\ t - m.last_save >= SaveInterval

should_auto_save(m, as, t) ==
    /\ as
    /\ m.index_path # ""
    /\ t - m.last_save >= SaveInterval

(***************************************************************************)
(* Bodies of the methods, as functions of the manager state.               *)
(***************************************************************************)
\* add_document without documents_[doc_id] = full_metadata.
add_document_body_no_store(m, d, e, c, um, t) ==
    IF ~HNSW_can_add(m.index, d, e)
    THEN [m |-> m, ret |-> FALSE]
    ELSE [m |-> update_stats([m EXCEPT !.index = HNSW_add_document(@, d, e)], t),
          ret |-> TRUE]

\* add_document up to the auto-save check (lines 41-53).
add_document_body(m, d, e, c, um, t) ==
    LET full_metadata == create_metadata(d, c, um, t)
    IN IF ~HNSW_can_add(m.index, d, e)
       THEN [m |-> m, ret |-> FALSE]
       ELSE [m |-> update_stats(
                     [m EXCEPT !.index = HNSW_add_document(@, d, e),
                               !.documents = (d :> full_metadata) @@ @], t),
             ret |-> TRUE]

\* delete_document without the early return for an absent doc_id.
delete_document_body_no_find(m, d, t) ==
    [m |-> update_stats(
             [m EXCEPT !.documents = [k \in (DOMAIN @) \ {d} |-> @[k]]], t),
     ret |-> TRUE]

\* delete_document up to the auto-save check (lines 161-172): only the
\* metadata entry is erased, the index is left as it is.
delete_document_body(m, d, t) ==
    IF d \notin DOMAIN m.documents
    THEN [m |-> m, ret |-> FALSE]
    ELSE [m |-> update_stats(
                  [m EXCEPT !.documents = [k \in (DOMAIN @) \ {d} |-> @[k]]], t),
          ret |-> TRUE]

\* BatchResult (total_time left out).
BatchResult(total) == [total |-> total, successful |-> 0, failed |-> 0,
                       error_messages |-> <<>>]

\* add_batch returning on a size mismatch, after having touched the stats.
add_batch_mismatch_touch(m, result, message, t) ==
    [m |-> update_stats(m, t),
     result |-> [result EXCEPT !.error_messages = Append(@, <<message>>)],
     locked |-> FALSE]

\* add_batch returning on a size mismatch (lines 73-74 and 80-81): the
\* message is pushed and the result returned; mutex_ was not taken yet.
add_batch_mismatch(m, result, message, t) ==
    [m |-> m,
     result |-> [result EXCEPT !.error_messages = Append(@, <<message>>)],
     locked |-> FALSE]

\* The loop of add_batch from item i on (lines 87-103).
\* b holds the four arrays.
RECURSIVE add_batch_loop(_, _, _, _, _)
add_batch_loop(m, result, i, b, t) ==
    IF i > Len(b.doc_ids) THEN [m |-> m, result |-> result]
    ELSE LET has_metadata == b.metadatas # <<>>
             doc_id == b.doc_ids[i]
             metadata == IF has_metadata THEN b.metadatas[i] ELSE EmptyJson
             full_metadata == create_metadata(doc_id, b.contents[i], metadata, t)
             ok == HNSW_can_add(m.index, doc_id, b.embeddings[i])
             m1 == IF ok
                   THEN [m EXCEPT !.index = HNSW_add_document(@, doc_id, b.embeddings[i]),
                                  !.documents = (doc_id :> full_metadata) @@ @]
                   ELSE m
             r1 == IF ok
                   THEN [result EXCEPT !.successful = @ + 1]
                   ELSE [result EXCEPT
                            !.failed = @ + 1,
                            !.error_messages =
                                Append(@, <<"Failed to add document", doc_id>>)]
         IN add_batch_loop(m1, r1, i + 1, b, t)

\* add_batch up to the auto-save check (lines 67-110).
add_batch_body(m, doc_ids, embeddings, contents, metadatas, t) ==
    LET result == BatchResult(Len(doc_ids))
        has_metadata == metadatas # <<>>
    IN IF Len(doc_ids) # Len(embeddings) \/ Len(doc_ids) # Len(contents)
       THEN add_batch_mismatch(m, result, "Input size mismatch", t)
       ELSE IF has_metadata /\ Len(metadatas) # Len(doc_ids)
       THEN add_batch_mismatch(m, result, "Metadata size mismatch", t)
       ELSE LET r == add_batch_loop(m, result, 1,
                                    BatchCall(doc_ids, embeddings, contents, metadatas),
                                    t)
            IN [m |-> update_stats(r.m, t), result |-> r.result, locked |-> TRUE]

NoFile == [exists |-> FALSE, data |-> <<>>]
File(data) == [exists |-> TRUE, data |-> data]

\* The JSON values the sidecar holds: null, or an object from doc_id to
\* metadata.
JsonNull == [type |-> "null", items |-> <<>>]
JsonObject(members) == [type |-> "object", items |-> members]

\* What save writes without the document map.
metadata_json_null(documents) == JsonNull

\* The value save_unlocked dumps (lines 229-232): a json that is assigned
\* one member per document, and so stays null when there is none.
metadata_json(documents) ==
    IF DOMAIN documents = {} THEN JsonNull ELSE JsonObject(documents)

\* The document map load_unlocked rebuilds from the parsed sidecar (lines
\* 283-286): one entry per item; null has no items.
restore_metadata(metadata_json_) ==
    [doc_id \in DOMAIN metadata_json_.items |-> metadata_json_.items[doc_id]]

\* Outcomes of the file system during one save or load.
IoOutcomes == {"ok", "index_fail", "meta_fail"}

\* save_unlocked: the index file is written first, then the sidecar is
\* opened; last_save_ is set only when both succeeded.
save_unlocked(m, dsk, t, io) ==
    IF m.index_path = "" THEN [m |-> m, disk |-> dsk, ret |-> FALSE]
    ELSE IF io = "index_fail" THEN [m |-> m, disk |-> dsk, ret |-> FALSE]
    ELSE LET p == m.index_path
             d1 == [dsk EXCEPT ![p].index = File(HNSW_save(m.index))]
         IN IF io = "meta_fail" THEN [m |-> m, disk |-> d1, ret |-> FALSE]
            ELSE [m |-> [m EXCEPT !.last_save = t],
                  disk |-> [d1 EXCEPT ![p].meta = File(metadata_json(m.documents))],
                  ret |-> TRUE]

\* load_unlocked: the index is loaded in place first; the document map is
\* replaced only after the sidecar was found, opened and parsed.
load_unlocked(m, dsk, t, io) ==
    IF m.index_path = "" THEN [m |-> m, ret |-> FALSE]
    ELSE LET f == dsk[m.index_path]
         IN IF ~f.index.exists \/ io = "index_fail" THEN [m |-> m, ret |-> FALSE]
            ELSE LET m1 == [m EXCEPT !.index = HNSW_load(@, f.index.data)]
                 IN IF ~f.meta.exists \/ io = "meta_fail"
                    THEN [m |-> m1, ret |-> FALSE]
                    ELSE [m |-> update_stats(
                                  [m1 EXCEPT !.documents = restore_metadata(f.meta.data)], t),
                          ret |-> TRUE]

\* load_from_missing without documents_.clear().
load_from_missing_keep_documents(m, path, update_default, t) ==
    IF ~update_default
    THEN [m |-> m, ret |-> FALSE]
    ELSE [m |-> [m EXCEPT !.index_path = path,
                          !.index = make_index(m.config), !.stats = IndexStats(t)],
          ret |-> TRUE]

\* load_from_missing without the early return for update_default = false.
load_from_missing_reset(m, path, update_default, t) ==
    [m |-> [m EXCEPT !.index_path = path, !.documents = <<>>,
                     !.index = make_index(m.config), !.stats = IndexStats(t)],
     ret |-> TRUE]

\* load_from when nothing exists at the path (lines 308-330): with
\* update_default = false nothing is touched; with update_default = true the
\* manager is reset to an empty index at the new default path.
load_from_missing(m, path, update_default, t) ==
    IF ~update_default
    THEN [m |-> m, ret |-> FALSE]
    ELSE [m |-> [m EXCEPT !.index_path = path, !.documents = <<>>,
                          !.index = make_index(m.config), !.stats = IndexStats(t)],
          ret |-> TRUE]

\* load_from_restore without index_.swap(new_index).
load_from_restore_no_index(cur, new_documents, new_index, new_stats, old_path) ==
    [cur EXCEPT !.documents = new_documents,
                !.stats = new_stats,
                !.index_path = old_path]

\* load_from after a failed load (lines 351-358): the three swaps are undone
\* and the default path is put back.
load_from_restore(cur, new_documents, new_index, new_stats, old_path) ==
    [cur EXCEPT !.documents = new_documents,
                !.index = new_index,
                !.stats = new_stats,
                !.index_path = old_path]

\* load_from, lines 336-349: the current state is swapped with a new empty
\* one and the path to load from is made the default path.
load_from_swap_body(m, path, t) ==
    [m EXCEPT !.documents = <<>>, !.index = make_index(m.config),
              !.stats = IndexStats(t), !.index_path = path]

\* load_from, lines 350-366: the load, then the swap back or the commit.
\* The locals old_path, new_documents, new_index and new_stats come as the
\* record a.
load_from_load_body(m, dsk, a, update_default, t, io) ==
    LET r == load_unlocked(m, dsk, t, io)
    IN IF ~r.ret
       THEN [m |-> load_from_restore(r.m, a.new_documents, a.new_index,
                                     a.new_stats, a.old_path),
             ret |-> FALSE]
       ELSE [m |-> IF ~update_default
                   THEN [r.m EXCEPT !.index_path = a.old_path]
                   ELSE r.m,
             ret |-> TRUE]

\* load_from (lines 303-367).
load_from_body(m, dsk, path, update_default, t, io) ==
    IF path = "" THEN [m |-> m, ret |-> FALSE]
    ELSE IF ~dsk[path].index.exists
    THEN load_from_missing(m, path, update_default, t)
    ELSE LET old_path == m.index_path
             \* after the three swaps the new_* locals hold the old state
             new_documents == m.documents
             new_index == m.index
             new_stats == m.stats
         IN load_from_load_body(load_from_swap_body(m, path, t), dsk,
                                [old_path |-> old_path,
                                 new_documents |-> new_documents,
                                 new_index |-> new_index,
                                 new_stats |-> new_stats],
                                update_default, t, io)

\* clear without index_->set_ef_search(config_.ef_search).
clear_body_default_ef(m, t) ==
    update_stats([m EXCEPT !.documents = <<>>,
                           !.index = HNSW_new(m.config.max_elements)], t)

\* clear (lines 377-389).
clear_body(m, t) ==
    update_stats([m EXCEPT !.documents = <<>>, !.index = make_index(m.config)], t)

\* The constructor's body (lines 10-26) for a configuration with the given
\* max_elements and ef_search (config) and index_path (path): an empty
\* manager, then load() when a path is given and a file exists there.
IndexManager_body(config, path, dsk, t, io) ==
    LET m == [documents |-> <<>>, index |-> make_index(config),
              stats |-> IndexStats(t), index_path |-> path, config |-> config,
              last_save |-> t]
    IN IF path # "" /\ dsk[path].index.exists
       THEN [m |-> load_unlocked(m, dsk, t, io).m, loaded |-> TRUE,
             ret |-> load_unlocked(m, dsk, t, io).ret]
       ELSE [m |-> m, loaded |-> FALSE, ret |-> FALSE]

\* The destructor saving whenever a path is set.
IndexManager_dtor_body_any(m, as, dsk, t, io) ==
    IF m.index_path # ""
    THEN [saved |-> TRUE, disk |-> save_unlocked(m, dsk, t, io).disk,
          ret |-> save_unlocked(m, dsk, t, io).ret]
    ELSE [saved |-> FALSE, disk |-> dsk, ret |-> FALSE]

\* The destructor's body (lines 30-32): save() when auto_save is on and a
\* path is set.
IndexManager_dtor_body(m, as, dsk, t, io) ==
    IF as /\ m.index_path # ""
    THEN [saved |-> TRUE, disk |-> save_unlocked(m, dsk, t, io).disk,
          ret |-> save_unlocked(m, dsk, t, io).ret]
    ELSE [saved |-> FALSE, disk |-> dsk, ret |-> FALSE]

\* search keeping the results below the threshold.
search_below(m, q, top_k, similarity_threshold) ==
    LET results == HNSW_search(m.index, q, top_k)
    IN IF similarity_threshold > 0
       THEN SelectSeq(results, LAMBDA r : r.similarity < similarity_threshold)
       ELSE results

\* search: the index's list, filtered by the threshold when it is positive.
search(m, q, top_k, similarity_threshold) ==
    LET results == HNSW_search(m.index, q, top_k)
    IN IF similarity_threshold > 0
       THEN SelectSeq(results, LAMBDA r : ~(r.similarity < similarity_threshold))
       ELSE results

has_document(m, d) == d \in DOMAIN m.documents
get_document(m, d) == IF d \in DOMAIN m.documents THEN m.documents[d] ELSE EmptyJson
document_count(m) == Cardinality(DOMAIN m.documents)
get_stats(m) == m.stats

(***************************************************************************)
(* Threads and calls.                                                      *)
(***************************************************************************)
\* Where a thread is, with the arguments and the locals of the call it is
\* in.  old and count are not program state: they remember what
\* get_document(doc_id) and document_count() were when the call was
\* entered, for the properties that compare the outcome with them.
Idle == [at |-> "idle", doc_id |-> "", embedding |-> <<>>, content |-> "",
         metadata |-> EmptyJson, path |-> "", update_default |-> FALSE,
         ef_search |-> 0, old_path |-> "", new_documents |-> <<>>,
         new_index |-> HNSW_new(0), new_stats |-> IndexStats(0),
         old |-> EmptyJson, count |-> 0, queries |-> <<>>, top_k |-> 0,
         results |-> <<>>, indexes |-> <<>>]

Call(op, arg, flag, ret) == [op |-> op, arg |-> arg, flag |-> flag, ret |-> ret]

BoolStr(b) == IF b THEN "true" ELSE "false"

Install(m) ==
    /\ documents_' = m.documents
    /\ index_' = m.index
    /\ stats_' = m.stats
    /\ index_path' = m.index_path
    /\ config_' = m.config
    /\ last_save_' = m.last_save

\* The caller holds mutex_ and has nothing left to do but return.
Return(t, op, arg, flag, ret) ==
    /\ mutex_' = NoThread
    /\ pc' = [pc EXCEPT ![t] = Idle]
    /\ last' = Call(op, arg, flag, ret)

\* The caller holds mutex_ (a std::lock_guard on a std::mutex) and calls the
\* public save(), whose first statement locks mutex_ again.  Locking a
\* std::mutex the thread already owns is undefined: the thread blocks on
\* itself for ever, or the library detects it and throws std::system_error
\* (resource_deadlock_would_occur), which no frame of the manager catches,
\* so the lock_guard releases the mutex while the exception leaves the call.
\* In neither outcome does save_unlocked run.
RelockOutcomes == {"deadlock", "system_error"}

AutoSave(t, op, arg) ==
    \E outcome \in RelockOutcomes :
        /\ mutex_' = IF outcome = "deadlock" THEN t ELSE NoThread
        /\ pc' = [pc EXCEPT ![t] = IF outcome = "deadlock"
                                   THEN [Idle EXCEPT !.at = "deadlocked"]
                                   ELSE Idle]
        /\ last' = Call(op, arg, FALSE, outcome)

\* A thread starts a call and gets the mutex.
Enter(t) ==
    /\ pc[t].at = "idle"
    /\ mutex_ = NoThread

add_document(t, d, e, c, um) ==
    /\ Enter(t)
    /\ LET r == add_document_body(Mgr, d, e, c, um, now)
       IN /\ Install(r.m)
          /\ IF r.ret /\ should_auto_save(r.m, auto_save, now)
             THEN AutoSave(t, "add_document", d)
             ELSE Return(t, "add_document", d, FALSE, BoolStr(r.ret))
    /\ UNCHANGED <<auto_save, disk, now>>
    /\ UNCHANGED docvars

delete_document(t, d) ==
    /\ Enter(t)
    /\ LET r == delete_document_body(Mgr, d, now)
       IN /\ Install(r.m)
          /\ IF r.ret /\ should_auto_save(r.m, auto_save, now)
             THEN AutoSave(t, "delete_document", d)
             ELSE Return(t, "delete_document", d, FALSE, BoolStr(r.ret))
    /\ UNCHANGED <<auto_save, disk, now>>
    /\ UNCHANGED docvars

\* add_batch.  The sizes are compared before mutex_ is taken (line 85), so a
\* mismatched call returns whoever holds the mutex.  The call is remembered
\* with its doc_ids, its embeddings and the lengths of the other two
\* arrays; the flag tells that it returned a BatchResult.
add_batch(t, doc_ids, embeddings, contents, metadatas) ==
    /\ pc[t].at = "idle"
    /\ LET r == add_batch_body(Mgr, doc_ids, embeddings, contents, metadatas, now)
           arg == <<doc_ids, embeddings, Len(contents), Len(metadatas)>>
       IN /\ Install(r.m)
          /\ IF ~r.locked
             THEN /\ last' = Call("add_batch", arg, TRUE, r.result)
                  /\ UNCHANGED <<mutex_, pc>>
             ELSE /\ mutex_ = NoThread
                  /\ IF should_auto_save(r.m, auto_save, now)
                     THEN AutoSave(t, "add_batch", arg)
                     ELSE Return(t, "add_batch", arg, TRUE, r.result)
    /\ UNCHANGED <<auto_save, disk, now>>
    /\ UNCHANGED docvars

\* update_document, first half: delete_document(doc_id), result ignored
\* (the metadata argument is left at its default, {}).
\* The mutex is free again when it returns.
update_document_delete(t, d, e, c) ==
    /\ Enter(t)
    /\ LET r == delete_document_body(Mgr, d, now)
       IN /\ Install(r.m)
          /\ IF r.ret /\ should_auto_save(r.m, auto_save, now)
             THEN AutoSave(t, "update_document", d)
             ELSE /\ mutex_' = NoThread
                  /\ pc' = [pc EXCEPT ![t] = [Idle EXCEPT
                                              !.at = "update_add", !.doc_id = d,
                                              !.embedding = e, !.content = c,
                                              !.metadata = EmptyJson,
                                              !.old = get_document(Mgr, d),
                                              !.count = document_count(Mgr)]]
                  /\ last' = Call("update_document.delete", d, FALSE, BoolStr(r.ret))
    /\ UNCHANGED <<auto_save, disk, now>>
    /\ UNCHANGED docvars

\* update_document, second half: return add_document(...).
update_document_add(t) ==
    /\ pc[t].at = "update_add"
    /\ mutex_ = NoThread
    /\ LET a == pc[t]
           r == add_document_body(Mgr, a.doc_id, a.embedding, a.content, a.metadata, now)
       IN /\ Install(r.m)
          /\ IF r.ret /\ should_auto_save(r.m, auto_save, now)
             THEN AutoSave(t, "update_document", a.doc_id)
             ELSE Return(t, "update_document", a.doc_id, FALSE, BoolStr(r.ret))
    /\ UNCHANGED <<auto_save, disk, now>>
    /\ UNCHANGED docvars

save(t, io) ==
    /\ Enter(t)
    /\ LET r == save_unlocked(Mgr, disk, now, io)
       IN /\ Install(r.m)
          /\ disk' = r.disk
          /\ Return(t, "save", Mgr.index_path, FALSE, BoolStr(r.ret))
    /\ UNCHANGED <<auto_save, now>>
    /\ UNCHANGED docvars

load(t, io) ==
    /\ Enter(t)
    /\ LET r == load_unlocked(Mgr, disk, now, io)
       IN /\ Install(r.m)
          /\ Return(t, "load", Mgr.index_path, FALSE, BoolStr(r.ret))
    /\ UNCHANGED <<auto_save, disk, now>>
    /\ UNCHANGED docvars

load_from(t, path, update_default, io) ==
    /\ Enter(t)
    /\ LET r == load_from_body(Mgr, disk, path, update_default, now, io)
       IN /\ Install(r.m)
          /\ Return(t, "load_from", path, update_default, BoolStr(r.ret))
    /\ UNCHANGED <<auto_save, disk, now>>
    /\ UNCHANGED docvars

set_index_path(t, path) ==
    /\ Enter(t)
    /\ Install([Mgr EXCEPT !.index_path = path])
    /\ Return(t, "set_index_path", path, FALSE, "void")
    /\ UNCHANGED <<auto_save, disk, now>>
    /\ UNCHANGED docvars

clear(t) ==
    /\ Enter(t)
    /\ Install(clear_body(Mgr, now))
    /\ Return(t, "clear", "", FALSE, "void")
    /\ UNCHANGED <<auto_save, disk, now>>
    /\ UNCHANGED docvars

\* ~IndexManager, called by the thread that owns the manager when no call is
\* in progress; the flag tells whether save() was called, the argument the
\* outcome of the file system.  The thread is left without a manager.
IndexManager_dtor(t, io) ==
    /\ Enter(t)
    /\ LET r == IndexManager_dtor_body(Mgr, auto_save, disk, now, io)
       IN /\ disk' = r.disk
          /\ last' = Call("~IndexManager", io, r.saved, BoolStr(r.ret))
    /\ pc' = [pc EXCEPT ![t] = [Idle EXCEPT !.at = "destroyed"]]
    /\ UNCHANGED <<documents_, index_, stats_, index_path, auto_save, config_,
                   last_save_, mutex_, now>>
    /\ UNCHANGED docvars

\* IndexManager(config), called by a thread that has no manager, with the
\* max_elements and ef_search of before and the given index_path and
\* auto_save; the flag tells whether load() was called.
IndexManager_ctor(t, path, as, io) ==
    /\ pc[t].at = "destroyed"
    /\ LET r == IndexManager_body(config_, path, disk, now, io)
       IN /\ Install(r.m)
          /\ last' = Call("IndexManager", path, r.loaded, BoolStr(r.ret))
    /\ auto_save' = as
    /\ mutex_' = NoThread
    /\ pc' = [pc EXCEPT ![t] = Idle]
    /\ UNCHANGED <<disk, now>>
    /\ UNCHANGED docvars

\* A lock_guard that lets go of the mutex at once.
lock_guard_released(t) == NoThread

\* The owner of mutex_ while a std::lock_guard on it is in scope.
lock_guard(t) == t

\* set_index_path, line 370: the mutex is taken.
set_index_path_lock(t, path) ==
    /\ Enter(t)
    /\ mutex_' = lock_guard(t)
    /\ pc' = [pc EXCEPT ![t] = [Idle EXCEPT !.at = "set_index_path", !.path = path]]
    /\ last' = Call("set_index_path.lock", path, FALSE, "void")
    /\ UNCHANGED <<documents_, index_, stats_, index_path, auto_save, config_,
                   last_save_, disk, now>>
    /\ UNCHANGED docvars

\* set_index_path, line 371: the string is assigned; the call returns.
set_index_path_write(t) ==
    /\ pc[t].at = "set_index_path"
    /\ Install([Mgr EXCEPT !.index_path = pc[t].path])
    /\ Return(t, "set_index_path", pc[t].path, FALSE, "void")
    /\ UNCHANGED <<auto_save, disk, now>>
    /\ UNCHANGED docvars

\* set_ef_search, line 398: the mutex is taken.
set_ef_search_lock(t, ef_search) ==
    /\ Enter(t)
    /\ mutex_' = lock_guard(t)
    /\ pc' = [pc EXCEPT ![t] = [Idle EXCEPT !.at = "set_ef_search",
                                             !.ef_search = ef_search]]
    /\ last' = Call("set_ef_search.lock", "", FALSE, "void")
    /\ UNCHANGED <<documents_, index_, stats_, index_path, auto_save, config_,
                   last_save_, disk, now>>
    /\ UNCHANGED docvars

\* set_ef_search, lines 399-400: config_ and the index are updated; the call
\* returns.
set_ef_search_write(t) ==
    /\ pc[t].at = "set_ef_search"
    /\ Install([Mgr EXCEPT !.config.ef_search = pc[t].ef_search,
                           !.index = HNSW_set_ef_search(@, pc[t].ef_search)])
    /\ Return(t, "set_ef_search", "", FALSE, "void")
    /\ UNCHANGED <<auto_save, disk, now>>
    /\ UNCHANGED docvars

\* load_from up to the load (lines 304-349).  With an empty or a missing
\* path the call returns at once; otherwise the thread goes on to the load
\* with the mutex held, the locals holding the state it swapped out.
load_from_swap(t, path, update_default) ==
    /\ Enter(t)
    /\ IF path = "" \/ ~disk[path].index.exists
       THEN LET r == IF path = "" THEN [m |-> Mgr, ret |-> FALSE]
                     ELSE load_from_missing(Mgr, path, update_default, now)
            IN /\ Install(r.m)
               /\ Return(t, "load_from", path, update_default, BoolStr(r.ret))
       ELSE /\ Install(load_from_swap_body(Mgr, path, now))
            /\ mutex_' = lock_guard(t)
            /\ pc' = [pc EXCEPT ![t] = [Idle EXCEPT
                                        !.at = "load_from", !.path = path,
                                        !.update_default = update_default,
                                        !.old_path = index_path,
                                        !.new_documents = documents_,
                                        !.new_index = index_,
                                        !.new_stats = stats_,
                                        !.count = document_count(Mgr)]]
            /\ last' = Call("load_from.swap", path, update_default, "void")
    /\ UNCHANGED <<auto_save, disk, now>>
    /\ UNCHANGED docvars

\* load_from from the load to the return (lines 350-366).
load_from_load(t, io) ==
    /\ pc[t].at = "load_from"
    /\ LET a == pc[t]
           r == load_from_load_body(Mgr, disk, a, a.update_default, now, io)
       IN /\ Install(r.m)
          /\ Return(t, "load_from", a.path, a.update_default, BoolStr(r.ret))
    /\ UNCHANGED <<auto_save, disk, now>>
    /\ UNCHANGED docvars

\* The calls that are writing config_ at this moment.
ConfigWriters == {"set_index_path", "set_ef_search", "load_from"}

\* What a read of a field of the reference returned by get_config() can
\* yield.  The read takes no lock; when another thread is inside a call
\* that writes the field, the two accesses race and the read yields the
\* old value, the new one or, for the string, a mixture of both.
ConfigReads(t, field) ==
    LET others == Threads \ {t}
    IN IF field = "index_path"
       THEN {index_path}
            \cup UNION {{pc[u].path, "torn"} :
                         u \in {v \in others : pc[v].at = "set_index_path"}}
            \cup UNION {{pc[u].old_path, "torn"} :
                         u \in {v \in others : pc[v].at = "load_from"}}
       ELSE {ToString(config_.ef_search)}
            \cup {ToString(pc[u].ef_search) :
                         u \in {v \in others : pc[v].at = "set_ef_search"}}

ConfigFields == {"index_path", "ef_search"}

\* get_config (header, line 264) and a read through the reference.
get_config(t, field) ==
    /\ pc[t].at = "idle"
    /\ \E v \in ConfigReads(t, field) : last' = Call("get_config", field, FALSE, v)
    /\ UNCHANGED <<documents_, index_, stats_, index_path, auto_save, config_,
                   last_save_, mutex_, pc, disk, now>>
    /\ UNCHANGED docvars

\* has_document, get_document, document_count, search, get_stats: they take
\* the mutex, read and return; what they return is the value of the
\* operator of the same name in the state they leave unchanged.
Read(t, op) ==
    /\ Enter(t)
    /\ Return(t, op, "", FALSE, "value")
    /\ UNCHANGED <<documents_, index_, stats_, index_path, auto_save, config_,
                   last_save_, disk, now>>
    /\ UNCHANGED docvars

\* search_batch, lines 143-149: the call starts without the mutex; nothing
\* is searched yet.
search_batch_call(t, queries, top_k) ==
    /\ pc[t].at = "idle"
    /\ pc' = [pc EXCEPT ![t] = [Idle EXCEPT !.at = "search_batch",
                                             !.queries = queries,
                                             !.top_k = top_k]]
    /\ last' = Call("search_batch.call", "", FALSE, "void")
    /\ UNCHANGED <<documents_, index_, stats_, index_path, auto_save, config_,
                   last_save_, mutex_, disk, now>>
    /\ UNCHANGED docvars

\* search_batch, lines 151-153: one turn of the loop, a call of the public
\* search, which takes the mutex for this query alone; after the last query
\* the list of results is returned (line 155).  pc[t].indexes keeps the index
\* each query was answered on.
search_batch_search(t) ==
    /\ pc[t].at = "search_batch"
    /\ mutex_ = NoThread
    /\ LET query == pc[t].queries[Len(pc[t].results) + 1]
           results == Append(pc[t].results, search(Mgr, query, pc[t].top_k, 0))
       IN IF Len(results) < Len(pc[t].queries)
          THEN /\ pc' = [pc EXCEPT ![t].results = results,
                                   ![t].indexes = Append(@, index_)]
               /\ last' = Call("search_batch.search", "", FALSE, "void")
          ELSE /\ pc' = [pc EXCEPT ![t] = Idle]
               /\ last' = Call("search_batch", pc[t].queries, FALSE, results)
    /\ UNCHANGED <<documents_, index_, stats_, index_path, auto_save, config_,
                   last_save_, mutex_, disk, now>>
    /\ UNCHANGED docvars

ReadOps == {"has_document", "search"}
AllReadOps == {"document_count", "has_document", "get_document", "search",
               "get_stats"}

Tick ==
    /\ now < MaxClock
    /\ now' = now + 1
    /\ last' = Call("tick", "", FALSE, "void")
    /\ UNCHANGED <<documents_, index_, stats_, index_path, auto_save, config_,
                   last_save_, mutex_, pc, disk>>
    /\ UNCHANGED docvars

(***************************************************************************)
(* The document pipeline: OCRClient (ocr_client.cpp) and DocumentProcessor *)
(* (document_processor.cpp).  The file system, the OCR service and the     *)
(* embedding service are outside the program; each call draws what they    *)
(* answer from the sets below.  CognitiveHandler and TextValidator are     *)
(* described by the design document only.                                  *)
(***************************************************************************)
\* Number of requests the model lets the client send, and number of
\* documents it lets the processor count.
MaxRequests == 2
MaxDocuments == 1

\* OCRConfig::max_retries, the number of attempts of make_request.
max_retries == 2

\* A file path is the sequence of its components; the string is the
\* components joined by "/".
RECURSIVE PathStr(_)
PathStr(p) == IF Len(p) = 1 THEN p[1] ELSE p[1] \o "/" \o PathStr(Tail(p))

FilePaths == {<<"dir", "f.png">>}
\* What std::ifstream finds at the path.
FileStates == {"unopenable", "unreadable", "readable"}

\* The body of an HTTP response: JSON or not, and the fields the client
\* reads ("status" of /health; "success", "text", "error_message" and
\* "metadata" of /ocr/extract, metadata being absent, an object or an array).
Body(json, status, success, text, err, metadata) ==
    [json |-> json, status |-> status, success |-> success, text |-> text,
     error_message |-> err, metadata |-> metadata]
NotJson == Body(FALSE, "", FALSE, "", "", "absent")
HealthBody(status) == Body(TRUE, status, FALSE, "", "", "absent")
OcrBody(success, text, err, metadata) == Body(TRUE, "", success, text, err, metadata)

\* httplib::Result of do_get and do_post: an exception, no response (the
\* Result is empty on a connection or read error), or a response.
Thrown == [thrown |-> TRUE, present |-> FALSE, status |-> 0, body |-> NotJson]
NoResponse == [thrown |-> FALSE, present |-> FALSE, status |-> 0, body |-> NotJson]
Response(status, body) ==
    [thrown |-> FALSE, present |-> TRUE, status |-> status, body |-> body]

\* The two ways the HTTP library can report that the request timed out.
TimedOut == {NoResponse, Thrown}
HealthResults ==
    TimedOut \cup {Response(500, NotJson), Response(200, NotJson),
                   Response(200, HealthBody("starting")),
                   Response(200, HealthBody("healthy"))}

PostFailures == TimedOut \cup {Response(500, NotJson)}
PostBodies == {NotJson, OcrBody(FALSE, "", "no text found", "absent"),
               OcrBody(TRUE, "hello", "", "object"),
               OcrBody(TRUE, "hello", "", "array")}
PostResults == PostFailures \cup {Response(200, b) : b \in PostBodies}
\* The results of the attempts of one make_request, in order: an answer at
\* once (the attempts after it are not made), the same failure at every
\* attempt, or a failure and then the text.
Run(first, then) == [i \in 1..max_retries |-> IF i = 1 THEN first ELSE then]
PostRuns ==
    {Run(Response(200, b), NoResponse) : b \in PostBodies}
    \cup {Run(f, f) : f \in PostFailures}
    \cup {Run(f, Response(200, OcrBody(TRUE, "hello", "", "object"))) :
             f \in PostFailures}

\* check_health: false on an exception, on no response, on a status other
\* than 200 and on a body that is not JSON; otherwise whether "status" is
\* "healthy".  No path leaves the function by an exception.
check_health_body(response) ==
    IF response.thrown
    THEN [ret |-> FALSE, raised |-> FALSE]
    ELSE IF ~response.present \/ response.status # 200
    THEN [ret |-> FALSE, raised |-> FALSE]
    ELSE IF ~response.body.json
    THEN [ret |-> FALSE, raised |-> FALSE]
    ELSE [ret |-> response.body.status = "healthy", raised |-> FALSE]

OCRResult(success, text, err, metadata) ==
    [success |-> success, text |-> text, error_message |-> err,
     metadata |-> metadata]

\* make_request with a sleep after the last failed attempt as well.
RECURSIVE make_request_sleep_always(_, _, _)
make_request_sleep_always(retries, attempt, run) ==
    IF attempt >= retries
    THEN [has_value |-> FALSE, body |-> NotJson, sent |-> attempt, slept |-> 0]
    ELSE LET response == run[attempt + 1]
         IN IF ~response.thrown /\ response.present /\ response.status = 200
            THEN [has_value |-> TRUE, body |-> response.body,
                  sent |-> attempt + 1, slept |-> 0]
            ELSE LET rest == make_request_sleep_always(retries, attempt + 1, run)
                 IN [rest EXCEPT !.slept = @ + 1]

\* make_request with config_.max_retries = retries, from the given attempt
\* on: up to retries attempts, each one request; the body of the first
\* response with status 200, or nothing.  After a failed attempt the thread
\* sleeps retry_delay when another attempt follows; slept counts the sleeps.
RECURSIVE make_request(_, _, _)
make_request(retries, attempt, run) ==
    IF attempt >= retries
    THEN [has_value |-> FALSE, body |-> NotJson, sent |-> attempt, slept |-> 0]
    ELSE LET response == run[attempt + 1]
         IN IF ~response.thrown /\ response.present /\ response.status = 200
            THEN [has_value |-> TRUE, body |-> response.body,
                  sent |-> attempt + 1, slept |-> 0]
            ELSE LET rest == make_request(retries, attempt + 1, run)
                 IN [rest EXCEPT !.slept = @ + (IF attempt + 1 < retries
                                                THEN 1 ELSE 0)]

parse_response(body) ==
    IF body.json
    THEN OCRResult(body.success, body.text, body.error_message,
                   IF body.metadata = "absent" THEN "null" ELSE body.metadata)
    ELSE OCRResult(FALSE, "", "Failed to parse response", "null")

process_image(run) ==
    LET response == make_request(max_retries, 0, run)
    IN [result |-> IF response.has_value
                   THEN parse_response(response.body)
                   ELSE OCRResult(FALSE, "", "Failed to get response from OCR service", "null"),
        sent |-> response.sent]

process_file_body_no_open_check(filepath, file, run) ==
    IF file = "unreadable"
    THEN [result |-> OCRResult(FALSE, "", "Failed to read file: " \o PathStr(filepath), "null"),
          sent |-> 0]
    ELSE process_image(run)
\* process_file: a file that cannot be opened or read ends the call before
\* anything is sent.
process_file_body(filepath, file, run) ==
    IF file = "unopenable"
    THEN [result |-> OCRResult(FALSE, "", "Failed to open file: " \o PathStr(filepath), "null"),
          sent |-> 0]
    ELSE IF file = "unreadable"
    THEN [result |-> OCRResult(FALSE, "", "Failed to read file: " \o PathStr(filepath), "null"),
          sent |-> 0]
    ELSE process_image(run)

check_health(response) ==
    /\ ocr_requests < MaxRequests
    /\ ocr_requests' = ocr_requests + 1
    /\ LET r == check_health_body(response)
       IN last' = Call("check_health", response, r.raised, BoolStr(r.ret))
    /\ UNCHANGED <<mgrvars, now, processor_stats_, cognitive_>>
    /\ UNCHANGED pipevars

process_file(filepath, file, run) ==
    /\ LET r == process_file_body(filepath, file, run)
       IN /\ ocr_requests + r.sent <= MaxRequests
          /\ ocr_requests' = ocr_requests + r.sent
          /\ last' = Call("process_file", file, FALSE, r.result)
    /\ UNCHANGED <<mgrvars, now, processor_stats_, cognitive_>>
    /\ UNCHANGED pipevars

\* The values of max_retries a client is configured with, and the results
\* of the attempts make_request can make with them.
RetryCounts == {-1, 0, 1, 2}
AttemptResults == PostFailures \cup {Response(200, OcrBody(TRUE, "hello", "", "object"))}
AttemptRuns == [1..max_retries -> AttemptResults]

\* One call of make_request, as process_image makes it, on a client
\* configured with the given max_retries.
make_request_call(retries, run) ==
    /\ LET r == make_request(retries, 0, run)
       IN /\ ocr_requests + r.sent <= MaxRequests
          /\ ocr_requests' = ocr_requests + r.sent
          /\ last' = Call("make_request", [max_retries |-> retries, run |-> run],
                          r.has_value, r)
    /\ UNCHANGED <<mgrvars, now, processor_stats_, cognitive_>>
    /\ UNCHANGED pipevars

(***************************************************************************)
(* OCRClient's configuration and the endpoint it is bound to.              *)
(*                                                                         *)
(* A service URL is written as the parts the pattern of parse_url looks    *)
(* for: scheme, host (the labels between its dots), port (-1 when the URL  *)
(* names none) and path (the segments between its slashes; an empty        *)
(* segment stands for a repeated or a trailing slash, no segment for "/"   *)
(* or for no path at all).                                                 *)
(***************************************************************************)
Url(scheme, host, port, path) ==
    [scheme |-> scheme, host |-> host, port |-> port, path |-> path]

\* to_lower, on one label or segment and on a sequence of them.
lower(text) ==
    CASE text = "OCR" -> "ocr"
      [] text = "HTTP" -> "http"
      [] OTHER -> text
to_lower(input) == [i \in DOMAIN input |-> lower(input[i])]

\* A label with a character that is neither alphanumeric nor '-'; segments
\* with '?' or '#', with "..", and with a backslash.
InvalidLabels == {"o_r"}
QuerySegments == {"ocr?x"}
TraversalSegments == {".."}
BackslashSegments == {"o\\r"}

\* parse_url: the scheme is http or https in either case, the host is not
\* empty, the port is digits; a URL that does not match throws.
parse_url(url) ==
    IF lower(url.scheme) \notin {"http", "https"} \/ url.host = <<>> \/ url.port < -1
    THEN [thrown |-> TRUE, parsed |-> Url("", <<>>, -1, <<>>)]
    ELSE [thrown |-> FALSE,
          parsed |-> Url(lower(url.scheme), url.host, url.port, url.path)]

is_valid_host(host) ==
    /\ host # <<>>
    /\ \A i \in DOMAIN host : host[i] \notin InvalidLabels

\* host_allowed: an exact match, a subdomain wildcard <<"*", ...>> or a
\* prefix wildcard <<..., "*">>, in lower case.
host_allowed(host, allow_list) ==
    LET host_lower == to_lower(host)
        n == Len(host_lower)
    IN \E k \in DOMAIN allow_list :
          LET pattern_lower == to_lower(allow_list[k])
              m == Len(pattern_lower)
          IN \/ pattern_lower = host_lower
             \/ /\ m >= 2
                /\ pattern_lower[1] = "*"
                /\ n > m - 1
                /\ SubSeq(host_lower, n - m + 2, n) = Tail(pattern_lower)
             \/ /\ m >= 2
                /\ pattern_lower[1] # "*"
                /\ pattern_lower[m] = "*"
                /\ n > m - 1
                /\ SubSeq(host_lower, 1, m - 1) = SubSeq(pattern_lower, 1, m - 1)

\* sanitize_path: no base path for "/", no query, no "..", no backslash;
\* repeated and trailing slashes dropped; the rest must start with /v1/ocr.
sanitize_path(raw_path) ==
    LET path == SelectSeq(raw_path, LAMBDA segment : segment # "")
    IN IF raw_path = <<>>
       THEN [thrown |-> FALSE, path |-> <<>>]
       ELSE IF \/ \E i \in DOMAIN raw_path :
                    raw_path[i] \in QuerySegments \cup TraversalSegments
                                    \cup BackslashSegments
               \/ Len(path) < 2
               \/ lower(path[1]) # "v1"
               \/ lower(path[2]) # "ocr"
       THEN [thrown |-> TRUE, path |-> <<>>]
       ELSE [thrown |-> FALSE, path |-> path]

\* What a client is bound to: scheme, host, port and base path.
Endpoint(scheme, host, port, base_path) ==
    [scheme |-> scheme, host |-> host, port |-> port, base_path |-> base_path]
NoEndpoint == Endpoint("", <<>>, 0, <<>>)
http_port == 80
https_port == 443
max_port == 65535

\* Impl::Impl: parse the URL, check the host, default and check the port,
\* sanitize the path; each check throws.
Impl(config) ==
    LET p == parse_url(config.service_url)
        parsed == p.parsed
        port == IF parsed.port < 0
                THEN (IF parsed.scheme = "https" THEN https_port ELSE http_port)
                ELSE parsed.port
        base == sanitize_path(parsed.path)
    IN IF \/ p.thrown
          \/ ~is_valid_host(parsed.host)
          \/ ~host_allowed(parsed.host, config.allowed_hosts)
          \/ port <= 0
          \/ port > max_port
          \/ base.thrown
       THEN [thrown |-> TRUE, impl |-> NoEndpoint]
       ELSE [thrown |-> FALSE,
             impl |-> Endpoint(parsed.scheme, parsed.host, port, base.path)]

\* OCRConfig: the URL, the hosts allowed, the mode, and the timeouts, in
\* seconds.
OCRConfig(service_url, allowed_hosts, mode, timeout) ==
    [service_url |-> service_url, allowed_hosts |-> allowed_hosts, mode |-> mode,
     timeout |-> timeout, connect_timeout |-> 10, read_timeout |-> 30,
     write_timeout |-> 30]
default_timeout == 30

\* A timeout other than the default of 30 seconds is the legacy setting:
\* it caps the connect timeout and replaces the read and write timeouts.
legacy_timeout(config) ==
    IF config.timeout # default_timeout /\ config.timeout > 0
    THEN [config EXCEPT !.connect_timeout = IF @ < config.timeout THEN @ ELSE config.timeout,
                        !.read_timeout = config.timeout,
                        !.write_timeout = config.timeout]
    ELSE config

\* The constructor: the normalised configuration, and the endpoint; it
\* throws what Impl throws, and then there is no client.
OCRClient(config) ==
    LET local_config == legacy_timeout(config)
    IN [thrown |-> Impl(local_config).thrown,
        client |-> [config_ |-> local_config, pimpl_ |-> Impl(local_config).impl]]

\* update_config: config_ is assigned and normalised first, then the
\* endpoint is rebuilt from it; when that throws, pimpl_ is the old one.
OCRClient_update_config_body(client, config) ==
    LET assigned == legacy_timeout(config)
        rebuilt == Impl(assigned)
    IN [thrown |-> rebuilt.thrown,
        client |-> [config_ |-> assigned,
                    pimpl_ |-> IF rebuilt.thrown THEN client.pimpl_ ELSE rebuilt.impl]]

OCRClient_get_config(client) == client.config_

Localhost == <<"localhost">>
ServiceUrls ==
    {Url("http", Localhost, 8000, <<>>),
     Url("HTTP", Localhost, -1, <<"v1", "OCR", "">>),
     Url("https", <<"OCR", "example", "com">>, -1, <<"", "v1", "ocr", "x">>),
     Url("http", <<"service", "internal">>, 8000, <<"v1", "ocr">>),
     Url("ftp", Localhost, 8000, <<>>),
     Url("http", <<>>, 8000, <<>>),
     Url("http", <<"o_r">>, 8000, <<>>),
     Url("http", <<"evil", "com">>, 8000, <<>>),
     Url("http", <<"example", "com">>, 8000, <<>>),
     Url("http", Localhost, 0, <<>>),
     Url("http", Localhost, 70000, <<>>),
     Url("http", Localhost, 8000, <<"admin">>),
     Url("http", Localhost, 8000, <<"v1", "ocr", "..", "admin">>),
     Url("http", Localhost, 8000, <<"v1", "ocr?x">>),
     Url("http", Localhost, 8000, <<"v1", "o\\r">>),
     Url("http", Localhost, 8000, <<"">>)}
AllowLists ==
    {<<Localhost>>, <<Localhost, <<"*", "example", "com">>, <<"service", "*">>>>}
Modes == {"tiny", "base"}
Timeouts == {30, 5}
OCRConfigs ==
    {OCRConfig(url, allow_list, mode, timeout) :
        url \in ServiceUrls, allow_list \in AllowLists, mode \in Modes,
        timeout \in Timeouts}
DefaultOCRConfig == OCRConfig(Url("http", Localhost, 8000, <<>>), <<Localhost>>, "base", 30)

\* OCRClient::update_config, called by one caller.
OCRClient_update_config(config) ==
    /\ LET r == OCRClient_update_config_body(ocr_client_, config)
       IN /\ ocr_client_' = r.client
          /\ last' = Call("OCRClient::update_config", config, r.thrown, "void")
    /\ UNCHANGED <<mgrvars, now, ocr_requests, processor_stats_, cognitive_,
                   processor_config_, processor_pc>>

\* A vector of n floats; the pipeline looks at its length only.
FloatVector(n) == [j \in 1..n |-> 0]

\* The dimension of the embedding generate_embedding falls back to, and the
\* dimension a CognitiveHandler is built with unless the caller gives one.
embedding_dim == 384
default_embedding_dim == 1536
\* The capacity of the handler's episodic buffer.
episodic_capacity == 2

\* CognitiveHandler, from the design document: a vector index that accepts
\* a document when its embedding has the index's dimension and its id is
\* not in the index yet, and an episodic buffer that evicts its oldest
\* episode on overflow.
CognitiveHandler(capacity, dim) ==
    [vector_index |-> <<>>, episodes |-> <<>>, episodic_capacity |-> capacity,
     embedding_dim |-> dim]

CognitiveHandler_index_document(h, doc_id, embedding) ==
    IF \/ Len(embedding) # h.embedding_dim
       \/ \E i \in 1..Len(h.vector_index) : h.vector_index[i] = doc_id
    THEN [h |-> h, ret |-> FALSE]
    ELSE [h |-> [h EXCEPT !.vector_index = Append(@, doc_id)], ret |-> TRUE]

add_episode(h, query, response) ==
    LET appended == Append(h.episodes, [query |-> query, response |-> response])
    IN [h EXCEPT !.episodes = IF Len(appended) > h.episodic_capacity
                              THEN Tail(appended) ELSE appended]

\* TextValidator::validate: the verdict is the validator's; the text is
\* passed on.
validate(text, verdict) == [is_valid |-> verdict, cleaned_text |-> text]

\* What the embedding service answers: nothing usable, or an embedding of
\* some length.
NoEmbedding == [ok |-> FALSE, embedding |-> <<>>]
ServiceEmbedding(n) == [ok |-> TRUE, embedding |-> FloatVector(n)]
EmbeddingAnswers ==
    {NoEmbedding, ServiceEmbedding(0), ServiceEmbedding(embedding_dim),
     ServiceEmbedding(default_embedding_dim)}

fallback_embedding == FloatVector(embedding_dim)
\* generate_embedding: the service's embedding, or the fallback of 384
\* dimensions.
generate_embedding(answer) ==
    IF answer.ok THEN answer.embedding ELSE fallback_embedding

\* generate_doc_id: "doc_<filename>_<milliseconds>".
generate_doc_id(filepath, t) ==
    "doc_" \o filepath[Len(filepath)] \o "_" \o ToString(t)

create_memory(h, doc_id, text) ==
    [h |-> add_episode(h, "Document: " \o doc_id, text), ret |-> TRUE]

index_document(h, doc_id, embedding) ==
    CognitiveHandler_index_document(h, doc_id, embedding)

ProcessingStats == [total_documents |-> 0, successful |-> 0, failed |-> 0]

\* update_stats that counts in total_documents the successes only.
DocumentProcessor_update_stats_skip_failed(stats, result) ==
    [total_documents |-> stats.total_documents + (IF result.success THEN 1 ELSE 0),
     successful |-> stats.successful + (IF result.success THEN 1 ELSE 0),
     failed |-> stats.failed + (IF result.success THEN 0 ELSE 1)]

DocumentProcessor_update_stats(stats, result) ==
    [total_documents |-> stats.total_documents + 1,
     successful |-> stats.successful + (IF result.success THEN 1 ELSE 0),
     failed |-> stats.failed + (IF result.success THEN 0 ELSE 1)]

DocumentResult(doc_id, success, indexed, err, text) ==
    [doc_id |-> doc_id, success |-> success, indexed |-> indexed,
     error_message |-> err, validated_text |-> text]

\* DocumentProcessor::Config: the three switches of the pipeline.
ProcessorConfigs ==
    [auto_generate_embeddings : BOOLEAN, create_episodic_memory : BOOLEAN,
     index_in_vector_store : BOOLEAN]
\* What the world answers during one call of process: the file, the OCR
\* service, the validator and the embedding service.  An answer that the
\* call never asks for is left out: no request without a readable file, no
\* validation without a successful OCR result, no embedding without a valid
\* text.
ValidatorAsked(run) == process_image(run).result.success
Worlds ==
    {w \in [file : FileStates, run : PostRuns, verdict : BOOLEAN,
             answer : EmbeddingAnswers] :
        /\ w.file # "readable" => w.run = Run(NoResponse, NoResponse)
        /\ w.verdict => (w.file = "readable" /\ ValidatorAsked(w.run))
        /\ w.answer # NoEmbedding => w.verdict}

\* Steps 3 to 5 of process, after OCR and validation succeeded.
process_store(h, doc_id, text, cfg, w) ==
    LET embedding == IF cfg.auto_generate_embeddings
                     THEN generate_embedding(w.answer) ELSE <<>>
        h1 == IF cfg.create_episodic_memory
              THEN create_memory(h, doc_id, text).h ELSE h
        ix == IF cfg.index_in_vector_store /\ embedding # <<>>
              THEN index_document(h1, doc_id, embedding)
              ELSE [h |-> h1, ret |-> FALSE]
    IN [result |-> DocumentResult(doc_id, TRUE, ix.ret, "", text),
        cognitive |-> ix.h,
        stages |-> (IF cfg.auto_generate_embeddings THEN <<"embedding">> ELSE <<>>)
                   \o (IF cfg.create_episodic_memory THEN <<"memory">> ELSE <<>>)
                   \o (IF cfg.index_in_vector_store /\ embedding # <<>>
                       THEN <<"index">> ELSE <<>>)]

\* process with validation failures passed on to steps 3 to 5.
process_result_no_gate(h, filepath, id, cfg, w, t) ==
    LET doc_id == IF id = "" THEN generate_doc_id(filepath, t) ELSE id
        ocr == process_file_body(filepath, w.file, w.run)
        v == validate(ocr.result.text, w.verdict)
    IN IF ~ocr.result.success
       THEN [result |-> DocumentResult(doc_id, FALSE, FALSE,
                            "OCR failed: " \o ocr.result.error_message, ""),
             cognitive |-> h, sent |-> ocr.sent, validated |-> FALSE,
             stages |-> <<"ocr">>]
       ELSE IF ocr.result.metadata = "array"
       THEN [result |-> DocumentResult(doc_id, FALSE, FALSE,
                            "Processing exception: type_error", ""),
             cognitive |-> h, sent |-> ocr.sent, validated |-> FALSE,
             stages |-> <<"ocr">>]
       ELSE [result |-> [process_store(h, doc_id, v.cleaned_text, cfg, w).result
                            EXCEPT !.success = v.is_valid],
             cognitive |-> process_store(h, doc_id, v.cleaned_text, cfg, w).cognitive,
             sent |-> ocr.sent, validated |-> v.is_valid,
             stages |-> <<"ocr", "validation">>
                        \o process_store(h, doc_id, v.cleaned_text, cfg, w).stages]

\* process without its statistics: the result, the handler afterwards, the
\* requests sent, whether OCR succeeded and the validator accepted the
\* text, and the stages the call went through, in their order.
process_result(h, filepath, id, cfg, w, t) ==
    LET doc_id == IF id = "" THEN generate_doc_id(filepath, t) ELSE id
        ocr == process_file_body(filepath, w.file, w.run)
        v == validate(ocr.result.text, w.verdict)
    IN IF ~ocr.result.success
       THEN [result |-> DocumentResult(doc_id, FALSE, FALSE,
                            "OCR failed: " \o ocr.result.error_message, ""),
             cognitive |-> h, sent |-> ocr.sent, validated |-> FALSE,
             stages |-> <<"ocr">>]
       ELSE IF ocr.result.metadata = "array"
       THEN [result |-> DocumentResult(doc_id, FALSE, FALSE,
                            "Processing exception: type_error", ""),
             cognitive |-> h, sent |-> ocr.sent, validated |-> FALSE,
             stages |-> <<"ocr">>]
       ELSE IF ~v.is_valid
       THEN [result |-> DocumentResult(doc_id, FALSE, FALSE,
                            "Validation failed: low confidence", v.cleaned_text),
             cognitive |-> h, sent |-> ocr.sent, validated |-> FALSE,
             stages |-> <<"ocr", "validation">>]
       ELSE [result |-> process_store(h, doc_id, v.cleaned_text, cfg, w).result,
             cognitive |-> process_store(h, doc_id, v.cleaned_text, cfg, w).cognitive,
             sent |-> ocr.sent, validated |-> TRUE,
             stages |-> <<"ocr", "validation">>
                        \o process_store(h, doc_id, v.cleaned_text, cfg, w).stages]

\* What a call of process leaves in the history: the doc_id it was given,
\* whether it was to embed and index, the stages it went through, its
\* result.
ProcessCall(op, id, cfg, r) ==
    Call(op,
         [doc_id |-> id,
          embed_and_index |-> /\ cfg.auto_generate_embeddings
                              /\ cfg.index_in_vector_store,
          stages |-> r.stages],
         r.validated, r.result)

\* DocumentProcessor::process: OCR, validation, embedding, episodic memory,
\* vector store, and the statistics at every exit.
process(filepath, id, cfg, w) ==
    /\ processor_stats_.total_documents < MaxDocuments
    /\ LET r == process_result(cognitive_, filepath, id, cfg, w, now)
       IN /\ ocr_requests + r.sent <= MaxRequests
          /\ cognitive_' = r.cognitive
          /\ processor_stats_' = DocumentProcessor_update_stats(processor_stats_, r.result)
          /\ ocr_requests' = ocr_requests + r.sent
          /\ last' = ProcessCall("process", id, cfg, r)
    /\ UNCHANGED <<mgrvars, now>>
    /\ UNCHANGED pipevars

\* The constructor, given max_elements and ef_search: an empty index,
\* last_save_ = now; nothing is loaded, no snapshot exists yet.
IndexManager(config) ==
    /\ documents_ = <<>>
    /\ index_ = make_index(config)
    /\ stats_ = IndexStats(0)
    /\ index_path \in {"", "p1"}
    /\ auto_save \in BOOLEAN
    /\ config_ = config
    /\ last_save_ = 0
    /\ mutex_ = NoThread
    /\ pc = [t \in Threads |-> Idle]
    /\ disk = [p \in Paths |-> [index |-> NoFile, meta |-> NoFile]]
    /\ now = 0
    /\ last = Call("init", "", FALSE, "void")

\* A thread that is in no call of the processor.
ProcessorIdle ==
    [at |-> "idle", prev_auto |-> FALSE, embedding |-> <<>>, doc_id |-> "",
     filepaths |-> <<>>, results |-> <<>>, events |-> <<>>]
DefaultProcessorConfig ==
    [auto_generate_embeddings |-> TRUE, create_episodic_memory |-> TRUE,
     index_in_vector_store |-> TRUE]

\* The constructor of the processor, with its configuration and on a
\* handler of the given dimension: nothing sent, nothing counted, nothing
\* stored, a client for the default service.
DocumentProcessor(config, dim) ==
    /\ ocr_requests = 0
    /\ processor_stats_ = ProcessingStats
    /\ cognitive_ = CognitiveHandler(episodic_capacity, dim)
    /\ processor_config_ = config
    /\ processor_pc = [t \in Threads |-> ProcessorIdle]
    /\ ocr_client_ = OCRClient(DefaultOCRConfig).client

Init ==
    /\ IndexManager([max_elements |-> MaxElements, ef_search |-> EfSearch])
    /\ DocumentProcessor(DefaultProcessorConfig, default_embedding_dim)

\* The files one batch names, and the largest number of documents the
\* processor counts before its callers stop.
MaxFiles == 2
BatchPaths == {<<"dir", "f.png">>, <<"g.png">>}
Batches == UNION {[1..n -> BatchPaths] : n \in 0..MaxFiles}
\* What process_with_embedding is given as the embedding.
CallerEmbeddings == {FloatVector(embedding_dim)}
\* The answers of the world to process_image, which reads no file.
ImageWorlds == {w \in Worlds : w.file = "readable"}
\* The answers to a call that is one step of a longer one: a file that
\* cannot be opened, a text the validator refuses, and a valid text with
\* and without an answer of the embedding service.
Recognised == Run(Response(200, OcrBody(TRUE, "hello", "", "object")), NoResponse)
StepWorlds ==
    {[file |-> "unopenable", run |-> Run(NoResponse, NoResponse), verdict |-> FALSE,
      answer |-> NoEmbedding],
     [file |-> "readable", run |-> Recognised, verdict |-> FALSE, answer |-> NoEmbedding],
     [file |-> "readable", run |-> Recognised, verdict |-> TRUE, answer |-> NoEmbedding],
     [file |-> "readable", run |-> Recognised, verdict |-> TRUE,
      answer |-> ServiceEmbedding(default_embedding_dim)]}
\* One answer for each way process ends: OCR failure, a refused text, an
\* exception (metadata that is an array), success.
Unusable == Run(Response(200, OcrBody(TRUE, "hello", "", "array")), NoResponse)
OutcomeWorlds ==
    {[file |-> "unopenable", run |-> Run(NoResponse, NoResponse), verdict |-> FALSE,
      answer |-> NoEmbedding],
     [file |-> "readable", run |-> Recognised, verdict |-> FALSE, answer |-> NoEmbedding],
     [file |-> "readable", run |-> Unusable, verdict |-> TRUE, answer |-> NoEmbedding],
     [file |-> "readable", run |-> Recognised, verdict |-> TRUE, answer |-> NoEmbedding]}

\* DocumentProcessor::process_image without its statistics: as process,
\* on image data instead of a file and with the doc_id as given.
DocumentProcessor_process_image_result(h, id, cfg, w) ==
    LET ocr == process_image(w.run)
        v == validate(ocr.result.text, w.verdict)
    IN IF ~ocr.result.success
       THEN [result |-> DocumentResult(id, FALSE, FALSE,
                            "OCR failed: " \o ocr.result.error_message, ""),
             cognitive |-> h, sent |-> ocr.sent, validated |-> FALSE,
             stages |-> <<"ocr">>]
       ELSE IF ~v.is_valid
       THEN [result |-> DocumentResult(id, FALSE, FALSE, "Validation failed",
                                       v.cleaned_text),
             cognitive |-> h, sent |-> ocr.sent, validated |-> FALSE,
             stages |-> <<"ocr", "validation">>]
       ELSE [result |-> process_store(h, id, v.cleaned_text, cfg, w).result,
             cognitive |-> process_store(h, id, v.cleaned_text, cfg, w).cognitive,
             sent |-> ocr.sent, validated |-> TRUE,
             stages |-> <<"ocr", "validation">>
                        \o process_store(h, id, v.cleaned_text, cfg, w).stages]

\* What one call of process or process_image does to the processor: the
\* handler, the statistics (under stats_mutex_) and the requests sent.
Processed(r) ==
    /\ ocr_requests + r.sent <= MaxRequests
    /\ cognitive_' = r.cognitive
    /\ processor_stats_' = DocumentProcessor_update_stats(processor_stats_, r.result)
    /\ ocr_requests' = ocr_requests + r.sent

DocumentProcessor_process_image(id, w) ==
    /\ LET r == DocumentProcessor_process_image_result(cognitive_, id, processor_config_, w)
       IN /\ processor_stats_.total_documents < MaxDocuments
          /\ Processed(r)
          /\ last' = ProcessCall("DocumentProcessor::process_image", id, processor_config_, r)
    /\ UNCHANGED <<mgrvars, now>>
    /\ UNCHANGED pipevars

\* process_with_embedding, in the three steps other threads can fall
\* between.  First it remembers auto_generate_embeddings and switches it
\* off.
process_with_embedding_call(t, filepath, embedding, id) ==
    /\ processor_pc[t].at = "idle"
    /\ processor_pc' = [processor_pc EXCEPT ![t] =
           [ProcessorIdle EXCEPT !.at = "process_with_embedding",
                                 !.prev_auto = processor_config_.auto_generate_embeddings,
                                 !.filepaths = <<filepath>>,
                                 !.embedding = embedding,
                                 !.doc_id = id]]
    /\ processor_config_' = [processor_config_ EXCEPT !.auto_generate_embeddings = FALSE]
    /\ last' = Call("process_with_embedding.call", "", FALSE, "void")
    /\ UNCHANGED <<mgrvars, now, ocr_requests, processor_stats_, cognitive_, ocr_client_>>

\* Then it calls process, with the configuration as it is by then.
process_with_embedding_process(t, w) ==
    /\ processor_pc[t].at = "process_with_embedding"
    /\ processor_pc[t].results = <<>>
    /\ LET r == process_result(cognitive_, processor_pc[t].filepaths[1],
                               processor_pc[t].doc_id, processor_config_, w, now)
       IN /\ processor_stats_.total_documents < MaxFiles
          /\ Processed(r)
          /\ processor_pc' = [processor_pc EXCEPT ![t].results = <<r.result>>,
                                                  ![t].events = r.stages]
          /\ last' = ProcessCall("process", processor_pc[t].doc_id, processor_config_, r)
    /\ UNCHANGED <<mgrvars, now, processor_config_, ocr_client_>>

\* Last it writes the remembered value back and indexes the document with
\* the embedding of the caller.
process_with_embedding_return(t) ==
    /\ processor_pc[t].at = "process_with_embedding"
    /\ processor_pc[t].results # <<>>
    /\ LET result == processor_pc[t].results[1]
           config == [processor_config_ EXCEPT
                         !.auto_generate_embeddings = processor_pc[t].prev_auto]
           ix == IF result.success /\ config.index_in_vector_store
                 THEN index_document(cognitive_, result.doc_id, processor_pc[t].embedding)
                 ELSE [h |-> cognitive_, ret |-> result.indexed]
       IN /\ processor_config_' = config
          /\ cognitive_' = ix.h
          /\ last' = Call("process_with_embedding",
                          [stages |-> processor_pc[t].events
                                      \o (IF result.success /\ config.index_in_vector_store
                                          THEN <<"index">> ELSE <<>>)],
                          FALSE, [result EXCEPT !.indexed = ix.ret])
    /\ processor_pc' = [processor_pc EXCEPT ![t] = ProcessorIdle]
    /\ UNCHANGED <<mgrvars, now, ocr_requests, processor_stats_, ocr_client_>>

\* process_batch with the progress callback called after the file is
\* processed.
process_batch_events_callback_last(events, current, filepaths) ==
    events \o <<[event |-> "process", current |-> current, total |-> Len(filepaths),
                 status |-> PathStr(filepaths[current])],
                [event |-> "progress", current |-> current, total |-> Len(filepaths),
                 status |-> "Processing: " \o PathStr(filepaths[current])]>>

\* What one turn of the loop of process_batch does, in its order: the
\* progress callback, then process.
process_batch_events(events, current, filepaths) ==
    events \o <<[event |-> "progress", current |-> current, total |-> Len(filepaths),
                 status |-> "Processing: " \o PathStr(filepaths[current])],
                [event |-> "process", current |-> current, total |-> Len(filepaths),
                 status |-> PathStr(filepaths[current])]>>

\* process_batch, called with a progress callback: the call, one step per
\* file, the return.
process_batch_call(t, filepaths) ==
    /\ processor_pc[t].at = "idle"
    /\ processor_stats_.total_documents + Len(filepaths) <= MaxFiles
    /\ processor_pc' = [processor_pc EXCEPT ![t] =
           [ProcessorIdle EXCEPT !.at = "process_batch", !.filepaths = filepaths]]
    /\ last' = Call("process_batch.call", "", FALSE, "void")
    /\ UNCHANGED <<mgrvars, now, ocr_requests, processor_stats_, cognitive_,
                   processor_config_, ocr_client_>>

process_batch_process(t, w) ==
    /\ processor_pc[t].at = "process_batch"
    /\ Len(processor_pc[t].results) < Len(processor_pc[t].filepaths)
    /\ LET current == Len(processor_pc[t].results) + 1
           filepath == processor_pc[t].filepaths[current]
           r == process_result(cognitive_, filepath, "", processor_config_, w, now)
       IN /\ processor_stats_.total_documents < MaxFiles
          /\ Processed(r)
          /\ processor_pc' = [processor_pc EXCEPT
                 ![t].results = Append(@, r.result),
                 ![t].events = process_batch_events(@, current, processor_pc[t].filepaths)]
          /\ last' = ProcessCall("process", "", processor_config_, r)
    /\ UNCHANGED <<mgrvars, now, processor_config_, ocr_client_>>

process_batch_return(t) ==
    /\ processor_pc[t].at = "process_batch"
    /\ Len(processor_pc[t].results) = Len(processor_pc[t].filepaths)
    /\ processor_pc' = [processor_pc EXCEPT ![t] = ProcessorIdle]
    /\ last' = Call("process_batch", processor_pc[t].filepaths, FALSE,
                    [results |-> processor_pc[t].results,
                     events |-> processor_pc[t].events])
    /\ UNCHANGED <<mgrvars, now, ocr_requests, processor_stats_, cognitive_,
                   processor_config_, ocr_client_>>

\* reset_stats, under stats_mutex_.
reset_stats ==
    /\ processor_stats_ # ProcessingStats
    /\ processor_stats_' = ProcessingStats
    /\ last' = Call("reset_stats", "", FALSE, "void")
    /\ UNCHANGED <<mgrvars, now, ocr_requests, cognitive_>>
    /\ UNCHANGED pipevars

\* A processor on a handler of either dimension, next to a manager that
\* nothing calls.
HandlerDims == {embedding_dim, default_embedding_dim}
InitDocument ==
    /\ IndexManager([max_elements |-> MaxElements, ef_search |-> EfSearch])
    /\ index_path = ""
    /\ auto_save = FALSE
    /\ \E config \in ProcessorConfigs, dim \in HandlerDims :
          DocumentProcessor(config, dim)

\* The doc_id process is called with: none, or the caller's.
CallerDocIds == {"", "a"}

\* One caller of the document pipeline.
NextDocument ==
    \/ \E response \in HealthResults : check_health(response)
    \/ \E filepath \in FilePaths, file \in FileStates, run \in PostRuns :
          process_file(filepath, file, run)
    \/ \E filepath \in FilePaths, id \in CallerDocIds, w \in Worlds :
          process(filepath, id, processor_config_, w)
    \/ \E id \in CallerDocIds, w \in ImageWorlds : DocumentProcessor_process_image(id, w)
    \/ Tick

SpecDocument == InitDocument /\ [][NextDocument]_vars

\* make_request alone, with every max_retries and every run of results.
NextRequest ==
    \E retries \in RetryCounts, run \in AttemptRuns :
        make_request_call(retries, run)

SpecRequest == InitDocument /\ [][NextRequest]_vars

\* A processor with every switch on, on a handler of the dimension of the
\* fallback embedding.
InitProcessor ==
    /\ IndexManager([max_elements |-> MaxElements, ef_search |-> EfSearch])
    /\ index_path = ""
    /\ auto_save = FALSE
    /\ DocumentProcessor(DefaultProcessorConfig, embedding_dim)

\* Two threads in process_with_embedding.
NextWithEmbedding ==
    \/ \E t \in Threads, filepath \in FilePaths, embedding \in CallerEmbeddings,
          id \in CallerDocIds :
          process_with_embedding_call(t, filepath, embedding, id)
    \/ \E t \in Threads, w \in StepWorlds : process_with_embedding_process(t, w)
    \/ \E t \in Threads : process_with_embedding_return(t)

SpecWithEmbedding == InitProcessor /\ [][NextWithEmbedding]_vars

\* One caller of process_batch.
BatchCallers == {"t1"}
NextProcessBatch ==
    \/ \E t \in BatchCallers, filepaths \in Batches : process_batch_call(t, filepaths)
    \/ \E t \in BatchCallers, w \in StepWorlds : process_batch_process(t, w)
    \/ \E t \in BatchCallers : process_batch_return(t)

SpecProcessBatch == InitDocument /\ [][NextProcessBatch]_vars

\* The callers of the processor together: one thread in process_batch,
\* one in process_with_embedding, and process, process_image and
\* reset_stats from any thread.
EmbeddingCallers == {"t2"}
NamedDocIds == {"a"}
NextProcessor ==
    \/ \E t \in EmbeddingCallers, filepath \in FilePaths, embedding \in CallerEmbeddings,
          id \in NamedDocIds :
          process_with_embedding_call(t, filepath, embedding, id)
    \/ \E t \in EmbeddingCallers, w \in OutcomeWorlds : process_with_embedding_process(t, w)
    \/ \E t \in EmbeddingCallers : process_with_embedding_return(t)
    \/ \E t \in BatchCallers, filepaths \in {b \in Batches : b \in Seq(FilePaths)} :
          process_batch_call(t, filepaths)
    \/ \E t \in BatchCallers, w \in OutcomeWorlds : process_batch_process(t, w)
    \/ \E t \in BatchCallers : process_batch_return(t)
    \/ \E id \in NamedDocIds, w \in OutcomeWorlds : DocumentProcessor_process_image(id, w)
    \/ \E filepath \in FilePaths, id \in NamedDocIds, w \in OutcomeWorlds :
          process(filepath, id, processor_config_, w)
    \/ reset_stats

SpecProcessor == InitProcessor /\ [][NextProcessor]_vars

\* One caller reconfigures the client, with every configuration.
NextClient ==
    \E config \in OCRConfigs : OCRClient_update_config(config)

SpecClient == InitDocument /\ [][NextClient]_vars

\* Calls from several threads that do not touch the disk.
Next ==
    \/ \E t \in Threads, d \in DocIds, e \in Embeddings, c \in Contents, um \in UserMetas :
          add_document(t, d, e, c, um)
    \/ \E t \in Threads, d \in DocIds : delete_document(t, d)
    \/ \E t \in Updaters, d \in DocIds, e \in TwoEmbeddings, c \in Contents :
          update_document_delete(t, d, e, c)
    \/ \E t \in Updaters : update_document_add(t)
    \/ \E t \in Threads : clear(t)
    \/ \E t \in Threads, op \in ReadOps : Read(t, op)
    \/ Tick

Spec == Init /\ [][Next]_vars

\* Calls of one thread, with the disk.
NextPersist ==
    \/ \E d \in DocIds, e \in TwoEmbeddings :
          add_document("t1", d, e, "x", EmptyJson)
    \/ \E d \in DocIds : delete_document("t1", d)
    \/ \E io \in IoOutcomes : save("t1", io)
    \/ \E io \in IoOutcomes : load("t1", io)
    \/ \E path \in Paths \cup {""}, u \in BOOLEAN, io \in IoOutcomes :
          load_from("t1", path, u, io)
    \/ \E path \in Paths \cup {""} : set_index_path("t1", path)
    \/ clear("t1")
    \/ Tick

SpecPersist == Init /\ [][NextPersist]_vars

InitBatch ==
    /\ IndexManager([max_elements |-> BatchMaxElements, ef_search |-> EfSearch])
    /\ DocumentProcessor(DefaultProcessorConfig, default_embedding_dim)

\* Calls of one thread on a manager with room for two documents: batches
\* with arrays of equal and of different sizes, and single inserts.
NextBatch ==
    \/ \E b \in EqualSizeBatches \cup OddSizeBatches :
          add_batch("t1", b.doc_ids, b.embeddings, b.contents, b.metadatas)
    \/ \E d \in DocIds : add_document("t1", d, UnitVec(1), "x", EmptyJson)
    \/ clear("t1")
    \/ Read("t1", "search")
    \/ Tick

SpecBatch == InitBatch /\ [][NextBatch]_vars

\* Calls of one thread on a manager with room for two documents: inserts,
\* snapshots, clear and loads, with the clock standing still.
NextSnapshot ==
    \/ \E b \in PlainBatches :
          add_batch("t1", b.doc_ids, b.embeddings, b.contents, b.metadatas)
    \/ \E d \in DocIds : add_document("t1", d, UnitVec(1), "x", EmptyJson)
    \/ \E io \in IoOutcomes : save("t1", io)
    \/ clear("t1")
    \/ \E io \in IoOutcomes : load("t1", io)

SpecSnapshot == InitBatch /\ [][NextSnapshot]_vars

\* Calls of several threads that read and write the configuration, and
\* load_from with the steps another thread can see.
NextConfig ==
    \/ \E t \in Threads, d \in DocIds : add_document(t, d, UnitVec(1), "x", EmptyJson)
    \/ \E t \in Threads : save(t, "ok")
    \/ \E t \in Threads, path \in Paths, u \in BOOLEAN : load_from_swap(t, path, u)
    \/ \E t \in Threads, io \in IoOutcomes : load_from_load(t, io)
    \/ \E t \in Threads, path \in Paths \cup {""} : set_index_path_lock(t, path)
    \/ \E t \in Threads : set_index_path_write(t)
    \/ \E t \in Threads, ef \in EfSearches : set_ef_search_lock(t, ef)
    \/ \E t \in Threads : set_ef_search_write(t)
    \/ \E t \in Threads, field \in ConfigFields : get_config(t, field)
    \/ \E t \in Threads : clear(t)
    \/ \E t \in Threads, op \in AllReadOps : Read(t, op)
    \/ Tick

SpecConfig == Init /\ [][NextConfig]_vars

\* The life of a manager and of its successors on the same disk: inserts,
\* then the destructor, then a constructor.
NextLifecycle ==
    \/ \E d \in DocIds : add_document("t1", d, UnitVec(1), "x", EmptyJson)
    \/ \E d \in DocIds : delete_document("t1", d)
    \/ \E io \in IoOutcomes : IndexManager_dtor("t1", io)
    \/ \E path \in Paths \cup {""}, as \in BOOLEAN, io \in IoOutcomes :
          IndexManager_ctor("t1", path, as, io)
    \/ Tick

SpecLifecycle == Init /\ [][NextLifecycle]_vars

\* Calls of one thread on a manager with room for two documents: inserts,
\* one by one and in batches, with contents of different lengths and user
\* metadata that names the manager's keys.
NextMetadata ==
    \/ \E d \in DocIds, cm \in ContentsAndMetas :
          add_document("t1", d, UnitVec(1), cm[1], cm[2])
    \/ \E b \in MetaBatches :
          add_batch("t1", b.doc_ids, b.embeddings, b.contents, b.metadatas)
    \/ clear("t1")
    \/ Read("t1", "get_document")
    \/ Tick

SpecMetadata == InitBatch /\ [][NextMetadata]_vars

\* The lists of queries search_batch is called with: the same query twice,
\* and two different ones.
QueryBatches == {<<UnitVec(1), UnitVec(1)>>, <<UnitVec(1), UnitVec(2)>>}

\* One thread adds and deletes documents while another calls search_batch.
NextSearchBatch ==
    \/ \E d \in DocIds, e \in TwoEmbeddings :
          add_document("t1", d, e, "x", EmptyJson)
    \/ \E d \in DocIds : delete_document("t1", d)
    \/ \E queries \in QueryBatches, top_k \in TopKs :
          search_batch_call("t2", queries, top_k)
    \/ search_batch_search("t2")

SpecSearchBatch == InitBatch /\ [][NextSearchBatch]_vars

\* One thread calls every operation that changes the documents, and save,
\* on a manager with room for one document.
NextStats ==
    \/ \E d \in DocIds, e \in TwoEmbeddings :
          add_document("t1", d, e, "x", EmptyJson)
    \/ \E b \in EqualSizeBatches :
          add_batch("t1", b.doc_ids, b.embeddings, b.contents, b.metadatas)
    \/ \E d \in DocIds : delete_document("t1", d)
    \/ \E d \in DocIds, e \in TwoEmbeddings :
          update_document_delete("t1", d, e, "x")
    \/ update_document_add("t1")
    \/ clear("t1")
    \/ \E io \in IoOutcomes : save("t1", io)
    \/ \E io \in IoOutcomes : load("t1", io)
    \/ \E path \in Paths \cup {""}, u \in BOOLEAN, io \in IoOutcomes :
          load_from("t1", path, u, io)

SpecStats == Init /\ [][NextStats]_vars

(***************************************************************************)
(* Properties.                                                             *)
(***************************************************************************)
PathExists(dsk, path) == path \in Paths /\ dsk[path].index.exists

InMemory == <<documents_, index_, stats_, index_path, last_save_>>

SearchReturns(m, d) ==
    \E q \in Queries, k \in TopKs, th \in Thresholds :
        \E i \in DOMAIN search(m, q, k, th) : search(m, q, k, th)[i].doc_id = d

\* C1: a mutating call (add_document, delete_document) made when auto_save
\* is on, index_path is set and save_interval has elapsed since the last
\* save writes a snapshot of the new state, sets last_save_ to the current
\* time and returns its result.
C1_AutoSaveWritesSnapshotAndReturns ==
    [][(/\ last'.op \in {"add_document", "delete_document"}
        /\ last'.ret # "false"
        /\ should_auto_save(Mgr, auto_save, now))
       => (/\ last'.ret = "true"
           /\ last_save_' = now
           /\ disk'[index_path].index = File(HNSW_save(index_'))
           /\ disk'[index_path].meta = File(metadata_json(documents_')))]_vars

\* C2: load_from(path, update_default = false) with nothing at path returns
\* false and leaves documents, index, stats, index_path and last_save_ as
\* they were.
C2_LoadFromMissingKeepsState ==
    [][(/\ last'.op = "load_from"
        /\ ~last'.flag
        /\ last'.arg \in Paths
        /\ ~PathExists(disk, last'.arg))
       => (last'.ret = "false" /\ UNCHANGED InMemory)]_vars

\* C2, the case: such a call was made on a manager that holds documents.
C2_Witness ==
    /\ last.op = "load_from"
    /\ ~last.flag
    /\ last.arg \in Paths
    /\ ~PathExists(disk, last.arg)
    /\ last.ret = "false"
    /\ DOMAIN documents_ # {}

\* C3: when load_from(path, update_default) finds the index file and the
\* load then fails (index file rejected, sidecar missing, unreadable or
\* unparsable), it returns false and documents, index, stats and index_path
\* are those held before the call, whatever update_default is.
C3_FailedLoadFromRestoresState ==
    [][(last'.op = "load_from" /\ PathExists(disk, last'.arg))
       => (/\ ~disk[last'.arg].meta.exists => last'.ret = "false"
           /\ last'.ret = "false" => UNCHANGED InMemory)]_vars

\* C3, the case: a load_from with update_default = true failed on an existing
\* index file whose content differs from the index in memory, on a manager
\* that holds documents.
C3_Witness ==
    /\ last.op = "load_from"
    /\ last.flag
    /\ PathExists(disk, last.arg)
    /\ last.ret = "false"
    /\ DOMAIN documents_ # {}
    /\ HNSW_load(index_, disk[last.arg].index.data) # index_
    /\ index_path # last.arg

\* C4: a load() that returns false leaves the index and the document map as
\* they were before the call.
C4_FailedLoadRestoresState ==
    [][(last'.op = "load" /\ last'.ret = "false")
       => UNCHANGED <<documents_, index_>>]_vars

\* C5: after delete_document(d) returned true, no search returns a result
\* for d.
C5_DeletedNotReturnedBySearch ==
    (last.op = "delete_document" /\ last.ret = "true")
        => ~SearchReturns(Mgr, last.arg)

\* C6: add_document with a doc_id that is present returns false and changes
\* neither the document map (count, stored metadata) nor the stats.
C6_DuplicateAddRejected ==
    [][(last'.op = "add_document" /\ has_document(Mgr, last'.arg))
       => (last'.ret = "false" /\ UNCHANGED <<documents_, stats_>>)]_vars

\* The step in which thread t returns from update_document, no other call
\* having run since its delete_document half.
UpdateReturns(t) ==
    /\ pc[t].at = "update_add"
    /\ pc'[t].at = "idle"
    /\ last.op = "update_document.delete"
    /\ last'.op = "update_document"

\* C7: an update_document that returns false leaves the document as it was:
\* get_document and document_count answer as before the call.
C7_UpdateAllOrNothing ==
    [][\A t \in Updaters :
         (UpdateReturns(t) /\ last'.ret = "false")
         => (/\ get_document(Mgr', pc[t].doc_id) = pc[t].old
             /\ document_count(Mgr') = pc[t].count)]_vars

\* C8: update_document on a doc_id that is not present returns false and
\* inserts nothing.
C8_UpdateAbsentFails ==
    [][\A t \in Updaters :
         (UpdateReturns(t) /\ DOMAIN pc[t].old = {})
         => (/\ last'.ret = "false"
             /\ ~has_document(Mgr', pc[t].doc_id)
             /\ document_count(Mgr') = pc[t].count)]_vars

\* C9: update_document on a doc_id that is present, with an embedding of the
\* configured dimension, returns true; the doc_id is then present, the count
\* is unchanged and get_document returns the new content.
C9_UpdatePresentSucceeds ==
    [][\A t \in Updaters :
         (UpdateReturns(t) /\ DOMAIN pc[t].old # {} /\ Len(pc[t].embedding) = Dim)
         => (/\ last'.ret = "true"
             /\ has_document(Mgr', pc[t].doc_id)
             /\ get_document(Mgr', pc[t].doc_id)["content"] = pc[t].content
             /\ document_count(Mgr') = pc[t].count)]_vars

\* C10: while a thread is between the two halves of update_document, the old
\* document removed and the new one not yet inserted, no call of another
\* thread runs (the clock may advance).
C10_UpdateHoldsLockThroughout ==
    [][\A t \in Updaters :
         (/\ pc[t].at = "update_add"
          /\ DOMAIN pc[t].old # {}
          /\ pc'[t] = pc[t])
         => last'.op = "tick"]_vars

\* C11: no thread reads the configuration (get_config and a read through
\* the reference it returns) while another thread is inside set_index_path,
\* set_ef_search or load_from, which write it.
C11_ConfigReadExcludesWriters ==
    [][last'.op = "get_config"
       => \A u \in Threads : pc[u].at \notin ConfigWriters]_vars

\* C12: from the swap that empties the document map and the index to its
\* return, load_from owns the mutex: no document_count, has_document,
\* get_document, search or get_stats of another thread runs while a
\* load_from is between the two, so each of them sees the state before the
\* load or the state after it.
C12_LoadFromHoldsLock ==
    [][/\ \A t \in Threads : pc'[t].at = "load_from" => mutex_' = t
       /\ last'.op \in AllReadOps
            => \A u \in Threads : pc[u].at # "load_from"]_vars

\* C12, the case: a load_from on a manager that holds documents is between
\* the swap and the load, the document map and the index emptied, while the
\* other thread is free to call.
C12_Witness ==
    \E t \in Threads :
        /\ pc[t].at = "load_from"
        /\ pc[t].count > 0
        /\ documents_ = <<>>
        /\ HNSW_size(index_) = 0
        /\ \A u \in Threads \ {t} : pc[u].at = "idle"

\* C13: under any interleaving of add_document and reads of several threads,
\* a doc_id whose add_document returned true is present (has_document is
\* true, document_count counts it) from that return on, through every
\* later add_document and read of any thread and every tick of the clock,
\* until a call deletes it or clears the manager.
C13_AddObservableByLaterReads ==
    [][\A d \in DocIds :
         (\/ (last'.op = "add_document" /\ last'.arg = d /\ last'.ret = "true")
          \/ (has_document(Mgr, d)
                /\ last'.op \in ReadOps \cup {"add_document", "tick"}))
         => (has_document(Mgr', d) /\ document_count(Mgr') >= 1)]_vars

\* C13, the case: a read returned while a document added before is present
\* and the other thread is in the middle of a call of its own.
C13_Witness ==
    /\ last.op \in ReadOps
    /\ \E d \in DocIds : has_document(Mgr, d)
    /\ \E t \in Threads : pc[t].at # "idle"

\* C14: a save() leaves the two files of the snapshot, the index file at
\* index_path and the metadata sidecar next to it, either both as they were
\* or both written from the state saved, whatever fails on the way.
C14_SnapshotPairAtomic ==
    [][(last'.op = "save" /\ last'.arg \in Paths)
       => (\/ disk'[last'.arg] = disk[last'.arg]
           \/ disk'[last'.arg] = [index |-> File(HNSW_save(index_)),
                                  meta |-> File(metadata_json(documents_))])]_vars

\* What load() makes of the files dsk, called after clear() and called by
\* the constructor of a new manager with the configuration of m.
LoadedAfterClear(m, dsk, t) == load_unlocked(clear_body(m, t), dsk, t, "ok")
LoadedByNewManager(m, dsk, t) ==
    load_unlocked([m EXCEPT !.documents = <<>>, !.index = make_index(m.config),
                            !.stats = IndexStats(t), !.last_save = t],
                  dsk, t, "ok")

\* The manager l answers as the manager m does: same doc_ids with the same
\* metadata, same count, same results of every search.
SameAnswers(l, m) ==
    /\ DOMAIN l.documents = DOMAIN m.documents
    /\ \A d \in DocIds : get_document(l, d) = get_document(m, d)
    /\ document_count(l) = document_count(m)
    /\ \A q \in Queries, k \in TopKs, th \in Thresholds :
          search(l, q, k, th) = search(m, q, k, th)

SizeMismatch(arg) ==
    \/ Len(arg[2]) # Len(arg[1])
    \/ arg[3] # Len(arg[1])
    \/ (arg[4] # 0 /\ arg[4] # Len(arg[1]))

\* C16: add_batch with doc_ids, embeddings and contents of different
\* lengths, or with a non-empty metadatas of another length, changes nothing
\* (documents, index, stats, last_save_, the files, the mutex) and
\* returns a result with total = the number of doc_ids, successful = 0 and an
\* error message.
C16_BatchSizeMismatchFailsWhole ==
    [][(last'.op = "add_batch" /\ SizeMismatch(last'.arg))
       => (/\ UNCHANGED <<documents_, index_, stats_, index_path, config_,
                          last_save_, disk, mutex_, pc>>
           /\ last'.flag
           /\ last'.ret.total = Len(last'.arg[1])
           /\ last'.ret.successful = 0
           /\ last'.ret.error_messages # <<>>)]_vars

\* C16, the case: a batch with arrays of different sizes was rejected on a
\* manager that holds documents, at a moment when an auto-save is due.
C16_Witness ==
    /\ last.op = "add_batch"
    /\ SizeMismatch(last.arg)
    /\ last.ret.successful = 0
    /\ DOMAIN documents_ # {}
    /\ should_auto_save(Mgr, auto_save, now)

\* C17: add_batch with arrays of equal sizes that returns: successful +
\* failed = total; the doc_ids present afterwards and not before are items
\* of the batch and as many as successful; every document present before
\* is present afterwards with the metadata it had; and an item with an
\* embedding of the configured dimension, a doc_id the index does not hold
\* and room left in the index is present afterwards, whatever the other
\* items did.
C17_BatchItemsIndependent ==
    [][(last'.op = "add_batch" /\ last'.flag /\ ~SizeMismatch(last'.arg))
       => LET doc_ids == last'.arg[1]
              embeddings == last'.arg[2]
              result == last'.ret
              added == (DOMAIN documents_') \ (DOMAIN documents_)
          IN /\ result.total = Len(doc_ids)
             /\ result.successful + result.failed = result.total
             /\ added \subseteq {doc_ids[i] : i \in 1..Len(doc_ids)}
             /\ Cardinality(added) = result.successful
             /\ \A d \in DOMAIN documents_ :
                    d \in DOMAIN documents_' /\ documents_'[d] = documents_[d]
             /\ \A i \in 1..Len(doc_ids) :
                    (/\ Len(embeddings[i]) = Dim
                     /\ ~HNSW_has(index_, doc_ids[i])
                     /\ HNSW_size(index_') < index_'.max_elements)
                    => has_document(Mgr', doc_ids[i])]_vars

\* The list r is the list base without the entries below the threshold th,
\* in the order of base.
FilteredFrom(r, base, th) ==
    /\ \A i \in 1..Len(r) : r[i].similarity >= th
    /\ Len(r) = Cardinality({j \in 1..Len(base) : base[j].similarity >= th})
    /\ \E f \in [1..Len(r) -> 1..Len(base)] :
          /\ \A i \in 1..Len(r) : r[i] = base[f[i]]
          /\ \A i, j \in 1..Len(r) : i < j => f[i] < f[j]

\* C18: search(q, top_k, threshold) returns at most top_k results; with
\* threshold > 0 they are the results of the index whose similarity is >=
\* threshold, in the order the index returned them; with threshold <= 0 they
\* are the results of the index.
C18_SearchThresholdFilter ==
    \A q \in Queries, k \in TopKs, th \in Thresholds :
        LET base == HNSW_search(index_, q, k)
            r == search(Mgr, q, k, th)
        IN /\ Len(r) <= k
           /\ th > 0 => FilteredFrom(r, base, th)
           /\ th <= 0 => r = base

\* C18, the case: a search returned on an index with two entries of
\* different similarity to a query, of which one threshold keeps one.
C18_Witness ==
    /\ last.op = "search"
    /\ \E q \in Queries, k \in TopKs, th \in Thresholds :
          /\ Len(HNSW_search(index_, q, k)) = 2
          /\ Len(search(Mgr, q, k, th)) = 1

\* C19: a mutating call that succeeds when an auto-save is due returns its
\* own result, true, and keeps its mutation, whether or not the snapshot
\* could be written.
C19_AutoSaveBestEffort ==
    [][(/\ last'.op \in {"add_document", "delete_document"}
        /\ last'.ret # "false"
        /\ should_auto_save(Mgr', auto_save, now))
       => (/\ last'.ret = "true"
           /\ last'.op = "add_document" => has_document(Mgr', last'.arg)
           /\ last'.op = "delete_document" => ~has_document(Mgr', last'.arg))]_vars

\* C20: clear() leaves no document and an empty index with the current
\* max_elements and ef_search, keeps index_path and last_save_, returns
\* without a save and leaves the files on disk as they are.
C20_ClearRebuildsWithCurrentParameters ==
    [][last'.op = "clear"
       => (/\ document_count(Mgr') = 0
           /\ HNSW_size(index_') = 0
           /\ index_'.ef_search = config_.ef_search
           /\ index_'.max_elements = config_.max_elements
           /\ UNCHANGED <<index_path, config_, last_save_, disk>>
           /\ last'.ret = "void")]_vars

\* C20, the case: clear() was called after set_ef_search had changed
\* ef_search, with documents in memory before, a snapshot on disk and an
\* auto-save due.
C20_Witness ==
    /\ last.op = "clear"
    /\ config_.ef_search # EfSearch
    /\ index_.ef_search = config_.ef_search
    /\ \E p \in Paths : disk[p].index.exists /\ disk[p].index.data # <<>>
    /\ should_auto_save(Mgr, auto_save, now)

\* C21: the constructor calls load() if and only if index_path is not empty
\* and a file exists there, and otherwise starts empty; it leaves the files
\* alone.  The destructor calls save() if and only if auto_save is on and
\* index_path is not empty; the files then hold the snapshot of the final
\* state unless the file system fails, and are left alone when save() is
\* not called.
C21_Lifecycle ==
    [][/\ last'.op = "IndexManager"
            => (/\ last'.flag <=> PathExists(disk, last'.arg)
                /\ ~last'.flag => (documents_' = <<>> /\ HNSW_size(index_') = 0)
                /\ (last'.flag /\ last'.ret = "true")
                      => (/\ HNSW_save(index_') = disk[last'.arg].index.data
                          /\ metadata_json(documents_') = disk[last'.arg].meta.data)
                /\ index_path' = last'.arg
                /\ disk' = disk)
       /\ last'.op = "~IndexManager"
            => (/\ last'.flag <=> (auto_save /\ index_path # "")
                /\ ~last'.flag => disk' = disk
                /\ (last'.flag /\ last'.arg = "ok")
                      => (/\ last'.ret = "true"
                          /\ disk'[index_path] =
                                [index |-> File(HNSW_save(index_)),
                                 meta |-> File(metadata_json(documents_))]))]_vars

\* C21, the case: a constructor loaded the document that the destructor of
\* the manager before it had saved.
C21_Witness ==
    /\ last.op = "IndexManager"
    /\ last.flag
    /\ last.ret = "true"
    /\ DOMAIN documents_ # {}

\* C22: while index_path is empty, save() and load() return false and
\* change neither the state in memory nor the files; add_document and
\* delete_document return their own result without an auto-save, the files
\* and last_save_ unchanged; and load_from("") returns false and changes
\* neither the state in memory nor the files.
C22_EmptyPathDisablesPersistence ==
    [][/\ (index_path = "" /\ last'.op \in {"save", "load"})
            => (last'.ret = "false" /\ UNCHANGED <<InMemory, disk>>)
       /\ (index_path = "" /\ last'.op \in {"add_document", "delete_document"})
            => (/\ last'.ret \in {"true", "false"}
                /\ UNCHANGED <<index_path, last_save_, disk>>)
       /\ (last'.op = "load_from" /\ last'.arg = "")
            => (last'.ret = "false" /\ UNCHANGED <<InMemory, disk>>)]_vars

\* C22, the case: with auto_save on and the save interval elapsed, an
\* add_document succeeded on a manager whose index_path is empty, while a
\* snapshot written earlier is on disk.
C22_Witness ==
    /\ last.op = "add_document"
    /\ last.ret = "true"
    /\ index_path = ""
    /\ auto_save
    /\ now - last_save_ >= SaveInterval
    /\ \E p \in Paths : disk[p].index.exists

\* C23: every doc_id of the document map has a vector in the index.
C23_DocumentsHaveVectors ==
    \A d \in DOMAIN documents_ : HNSW_has(index_, d)

\* C24: a call that fails or mutates nothing, an add_document, a
\* delete_document or a load that returns false, or an add_batch none of
\* whose items succeeds, leaves get_stats().last_update as it was.
C24_LastUpdateOnlyOnSuccess ==
    [][/\ (last'.op \in {"add_document", "delete_document", "load"}
              /\ last'.ret = "false")
            => get_stats(Mgr').last_update = get_stats(Mgr).last_update
       /\ (/\ last'.op = "add_batch"
           /\ last'.flag
           /\ last'.ret.total > 0
           /\ last'.ret.failed = last'.ret.total)
            => get_stats(Mgr').last_update = get_stats(Mgr).last_update]_vars

\* C25: no call (add_document, delete_document, clear, save, load,
\* load_from with either value of update_default, set_index_path), whether
\* it succeeds or not, changes get_stats().created_at.
C25_CreatedAtFixed ==
    [][get_stats(Mgr').created_at = get_stats(Mgr).created_at]_vars

\* C26: delete_document on a doc_id the document map does not hold returns
\* false and changes nothing: document map, index, stats, last_save_ and
\* the files stay as they were and no auto-save is attempted; get_document
\* on such a doc_id returns the empty value.
C26_AbsentDeleteAndGet ==
    [][/\ (last'.op = "delete_document" /\ ~has_document(Mgr, last'.arg))
            => (/\ last'.ret = "false"
                /\ UNCHANGED <<documents_, index_, stats_, index_path, config_,
                               last_save_, disk>>)
       /\ \A d \in DocIds :
              ~has_document(Mgr', d) => get_document(Mgr', d) = EmptyJson]_vars

\* C26, the case: a delete_document of an absent doc_id returned false on a
\* manager that holds another document, at a moment when an auto-save is
\* due.
C26_Witness ==
    /\ last.op = "delete_document"
    /\ last.ret = "false"
    /\ ~has_document(Mgr, last.arg)
    /\ DOMAIN documents_ # {}
    /\ should_auto_save(Mgr, auto_save, now)

\* The record r is what the manager stores for doc_id d added with content
\* c and user metadata um at time t: the four keys of the manager with the
\* manager's values, and the other keys of um with the user's.
CarriesManagerKeys(r, d, c, um, t) ==
    /\ DOMAIN r = SystemKeys \cup DOMAIN um
    /\ r["doc_id"] = d
    /\ r["content"] = c
    /\ r["content_length"] = StrLen(c)
    /\ r["indexed_at"] = t
    /\ \A k \in (DOMAIN um) \ SystemKeys : r[k] = um[k]

\* Item i is the first item of the batch with its doc_id.
FirstOf(doc_ids, i) == \A j \in 1..(i - 1) : doc_ids[j] # doc_ids[i]

\* C27: after an add_document that returned true, and for every doc_id an
\* add_batch added, get_document(d) is the user metadata with the keys
\* doc_id, content, content_length and indexed_at set by the manager, in
\* place of keys of the same name in the user metadata: doc_id = d, content
\* = the content passed, content_length = its length, indexed_at = the
\* time of the call; and every record of the document map has doc_id = its
\* key and content_length = the length of its content.
C27_StoredRecordCarriesManagerKeys ==
    [][/\ \A d \in DocIds, cm \in ContentsAndMetas :
              (/\ last'.op = "add_document"
               /\ last'.arg = d
               /\ last'.ret # "false"
               /\ add_document("t1", d, UnitVec(1), cm[1], cm[2]))
              => CarriesManagerKeys(get_document(Mgr', d), d, cm[1], cm[2], now)
       /\ \A b \in MetaBatches :
              (/\ last'.op = "add_batch"
               /\ last'.arg[1] = b.doc_ids
               /\ last'.arg[4] = Len(b.metadatas)
               /\ add_batch("t1", b.doc_ids, b.embeddings, b.contents, b.metadatas))
              => \A i \in 1..Len(b.doc_ids) :
                    (/\ ~has_document(Mgr, b.doc_ids[i])
                     /\ has_document(Mgr', b.doc_ids[i])
                     /\ FirstOf(b.doc_ids, i))
                    => CarriesManagerKeys(
                          get_document(Mgr', b.doc_ids[i]), b.doc_ids[i],
                          b.contents[i],
                          IF b.metadatas = <<>> THEN EmptyJson ELSE b.metadatas[i],
                          now)
       /\ \A d \in DocIds :
              has_document(Mgr', d)
              => (/\ get_document(Mgr', d)["doc_id"] = d
                  /\ get_document(Mgr', d)["content_length"]
                        = StrLen(get_document(Mgr', d)["content"]))]_vars

\* C27, the case: get_document was called on a manager that holds a
\* document added with user metadata naming doc_id and content_length, and
\* one added with the longer content.
C27_Witness ==
    /\ last.op = "get_document"
    /\ \E d \in DocIds :
          /\ has_document(Mgr, d)
          /\ "source" \in DOMAIN get_document(Mgr, d)
          /\ get_document(Mgr, d)["doc_id"] = d
    /\ \E d \in DocIds :
          /\ has_document(Mgr, d)
          /\ get_document(Mgr, d)["content_length"] = 2

\* The variables with the name of the last call first: a step changes the
\* name, or repeats a call of the same name.
docsteps == <<last.op, vars>>

\* C28: when the health request to the OCR service fails because of a
\* timeout, check_health raises an exception to the caller; it does not
\* return normally.
C28_HealthTimeoutRaises ==
    [][(last'.op = "check_health" /\ last'.arg \in TimedOut)
       => last'.flag]_docsteps

\* C29: process_file on a path that cannot be opened returns a result with
\* success = false and a non-empty error_message, and sends no request to
\* the OCR service.
C29_UnopenableFileSendsNothing ==
    [][(last'.op = "process_file" /\ last'.arg = "unopenable")
       => (/\ ~last'.ret.success
           /\ last'.ret.error_message # ""
           /\ ocr_requests' = ocr_requests)]_docsteps

\* The file could not be opened, after the client had sent requests for
\* other files.
C29_Witness ==
    /\ last.op = "process_file"
    /\ last.arg = "unopenable"
    /\ ~last.ret.success
    /\ ocr_requests > 0

\* C30: when OCR and validation succeed and both auto_generate_embeddings
\* and index_in_vector_store are enabled, process returns success = true
\* together with indexed = true, with the caller's doc_id preserved.
C30_ProcessIndexesDocument ==
    [][(/\ last'.op = "process"
        /\ last'.flag
        /\ last'.arg.embed_and_index)
       => (/\ last'.ret.success
           /\ last'.ret.indexed
           /\ (last'.arg.doc_id # "" => last'.ret.doc_id = last'.arg.doc_id))]_docsteps

\* C38: load_from(path, update_default = true) with a non-empty path that
\* does not exist returns true, leaves no document and an empty index with
\* the configured parameters, and makes path the default path; a load_from
\* that succeeds on an existing path makes path the default path when
\* update_default is true and keeps the previous one when it is false.
C38_LoadFromDefaultPath ==
    [][(last'.op = "load_from" /\ last'.arg \in Paths)
       => (/\ (last'.flag /\ ~PathExists(disk, last'.arg))
                => (/\ last'.ret = "true"
                    /\ document_count(Mgr') = 0
                    /\ index_' = make_index(config_)
                    /\ index_path' = last'.arg)
           /\ (PathExists(disk, last'.arg) /\ last'.ret = "true")
                => index_path' = (IF last'.flag THEN last'.arg ELSE index_path))]_vars

\* C38, the case: a load_from with update_default = true found nothing at
\* the path, after the clock had moved on, and left an empty manager at that
\* path.
C38_Witness ==
    /\ last.op = "load_from"
    /\ last.flag
    /\ last.arg \in Paths
    /\ ~PathExists(disk, last.arg)
    /\ last.ret = "true"
    /\ index_path = last.arg
    /\ stats_.created_at > 0

\* No thread is inside a call of the manager.
NoOperationInProgress ==
    mutex_ = NoThread /\ \A t \in Threads : pc[t].at = "idle"

\* C40: whenever no operation of the manager is in progress,
\* get_stats().total_documents equals document_count(), after any sequence
\* of add_document, add_batch, delete_document, update_document, clear, load
\* and load_from calls, whether they succeed or fail.
C40_StatsCountDocuments ==
    NoOperationInProgress
        => get_stats(Mgr).total_documents = document_count(Mgr)

\* C40, the case: a call has just failed on a manager that holds documents.
C40_Witness ==
    /\ NoOperationInProgress
    /\ last.op \in {"add_document", "delete_document", "load", "load_from"}
    /\ last.ret = "false"
    /\ document_count(Mgr) > 0

\* C32: the manager lock is free of deadlock: no operation tries to acquire
\* the non-recursive mutex while its own thread already holds it, so no
\* thread is left blocked inside a call and no call ends by the error of
\* such an attempt.
C32_NoSelfRelock ==
    /\ \A t \in Threads : pc[t].at # "deadlocked"
    /\ last.op \in {"add_document", "delete_document"}
          => last.ret \notin RelockOutcomes

\* The index a turn of search_batch's loop answers its query on: the ones
\* kept for the earlier queries, and the current one for the last query.
AnsweredOn(t) == Append(pc[t].indexes, index_)

\* C33: search_batch is linearizable as one operation: the list it returns
\* for each query is what search(query, top_k) returns, and all the lists
\* are computed against one and the same state of the index, also when
\* other threads add or delete documents meanwhile.
C33_SearchBatchOneState ==
    [][\A t \in Threads :
         (pc[t].at = "search_batch" /\ last'.op = "search_batch")
         => \E i \in 1..Len(AnsweredOn(t)) :
              \A j \in 1..Len(pc[t].queries) :
                 last'.ret[j] = search([Mgr EXCEPT !.index = AnsweredOn(t)[i]],
                                       pc[t].queries[j], pc[t].top_k, 0)]_docsteps

\* The attempt of a run was answered with status 200.
Answered(run, i) ==
    ~run[i].thrown /\ run[i].present /\ run[i].status = 200

\* C34: make_request makes at most max_retries POST attempts; it returns the
\* body of the first attempt answered with status 200 and makes no further
\* attempt; after max_retries failed attempts it returns no value; it sleeps
\* between attempts only, never after the last one; with max_retries <= 0
\* it makes no attempt and returns no value.
C34_MakeRequestRetries ==
    [][last'.op = "make_request"
       => LET r == last'.ret
              n == IF last'.arg.max_retries > 0 THEN last'.arg.max_retries ELSE 0
              run == last'.arg.run
          IN /\ r.sent <= n
             /\ ocr_requests' = ocr_requests + r.sent
             /\ \A i \in 1..(r.sent - 1) : ~Answered(run, i)
             /\ r.has_value => (Answered(run, r.sent) /\ r.body = run[r.sent].body)
             /\ ~r.has_value => (r.sent = n /\ \A i \in 1..n : ~Answered(run, i))
             /\ r.slept = (IF r.sent > 0 THEN r.sent - 1 ELSE 0)]_docsteps

\* C34, the case: every one of two attempts failed, with one sleep between
\* them.
C34_Witness ==
    /\ last.op = "make_request"
    /\ last.arg.max_retries = 2
    /\ ~last.ret.has_value
    /\ last.ret.sent = 2
    /\ last.ret.slept = 1

\* C39: OCRClient::update_config is all-or-nothing: when it throws (URL
\* unparsable, host not allowed, port or path rejected), get_config() still
\* returns the configuration the client had before, the one its endpoint
\* was built from; when it returns, get_config() has the new URL and mode.
C39_UpdateConfigAllOrNothing ==
    [][last'.op = "OCRClient::update_config" =>
          IF last'.flag
          THEN /\ OCRClient_get_config(ocr_client_') = OCRClient_get_config(ocr_client_)
               /\ Impl(OCRClient_get_config(ocr_client_')).impl = ocr_client_'.pimpl_
          ELSE /\ OCRClient_get_config(ocr_client_').mode = last'.arg.mode
               /\ OCRClient_get_config(ocr_client_').service_url = last'.arg.service_url
      ]_docsteps

\* C31: process_batch returns one result per file path, in the order of
\* the paths, and calls the progress callback once per file, with current
\* counting from 1 to n and total = n, each time before that file is
\* processed.
C31_BatchResultsAndProgress ==
    last.op = "process_batch" =>
        LET filepaths == last.arg
            n == Len(filepaths)
        IN /\ Len(last.ret.results) = n
           /\ Len(last.ret.events) = 2 * n
           /\ \A i \in 1..n :
                 /\ \E t \in 0..MaxClock :
                       last.ret.results[i].doc_id = generate_doc_id(filepaths[i], t)
                 /\ last.ret.events[2 * i - 1] =
                       [event |-> "progress", current |-> i, total |-> n,
                        status |-> "Processing: " \o PathStr(filepaths[i])]
                 /\ last.ret.events[2 * i] =
                       [event |-> "process", current |-> i, total |-> n,
                        status |-> PathStr(filepaths[i])]

C31_Witness ==
    /\ last.op = "process_batch"
    /\ Len(last.arg) = 2
    /\ last.arg[1] # last.arg[2]
    /\ last.ret.results[1].success
    /\ ~last.ret.results[2].success

\* C35: the statistics of the processor always have total_documents =
\* successful + failed, and every call of process and of process_image,
\* however it ends and whatever other calls and resets run beside it, adds
\* exactly one to total_documents.
C35_StatsCountEveryDocument ==
    [][/\ processor_stats_'.total_documents =
              processor_stats_'.successful + processor_stats_'.failed
       /\ last'.op \in {"process", "DocumentProcessor::process_image"} =>
              processor_stats_'.total_documents = processor_stats_.total_documents + 1
      ]_docsteps

\* A batch whose first document was counted before a reset and whose
\* second, a failure, after it.
C35_Witness ==
    /\ last.op = "process"
    /\ ~last.ret.success
    /\ processor_pc["t1"].at = "process_batch"
    /\ Len(processor_pc["t1"].results) = 2
    /\ processor_stats_.total_documents = 1

StageOrder == <<"ocr", "validation", "embedding", "memory", "index">>
StageRank(stage) == CHOOSE i \in DOMAIN StageOrder : StageOrder[i] = stage
InStageOrder(stages) ==
    \A i, j \in DOMAIN stages : i < j => StageRank(stages[i]) < StageRank(stages[j])

\* C36: process and process_image go through OCR, validation, embedding,
\* episodic memory and vector index in this order, and a document whose
\* OCR failed or whose text the validator refused comes back with success
\* = false, with no episode added and nothing indexed.
C36_PipelineGating ==
    [][last'.op \in {"process", "DocumentProcessor::process_image"} =>
          /\ InStageOrder(last'.arg.stages)
          /\ ~last'.flag => /\ ~last'.ret.success
                            /\ ~last'.ret.indexed
                            /\ cognitive_' = cognitive_
      ]_docsteps

\* process_image on a processor that creates episodes, with a text the
\* validator refused.
C36_Witness ==
    /\ last.op = "DocumentProcessor::process_image"
    /\ last.arg.stages = <<"ocr", "validation">>
    /\ ~last.ret.success
    /\ processor_config_.create_episodic_memory

\* C37: once every call of process_with_embedding has returned,
\* auto_generate_embeddings is what it was before the calls (on, here),
\* and each call has indexed its document at most once, with the embedding
\* of its caller and not with a generated one.
C37_WithEmbeddingRestores ==
    /\ (\A t \in Threads : processor_pc[t].at = "idle")
           => processor_config_.auto_generate_embeddings
    /\ last.op = "process_with_embedding"
           => /\ Cardinality({i \in DOMAIN last.arg.stages :
                                 last.arg.stages[i] = "index"}) <= 1
              /\ \A i \in DOMAIN last.arg.stages : last.arg.stages[i] # "embedding"

====
